---- MODULE Spec2Model ----
(***************************************************************************)
(* The clique proof-of-authority engine of go-ctereum                      *)
(* (consensus/clique/clique.go) as a state machine: header verification    *)
(* against the parent snapshot, header replay (apply) with the vote tally, *)
(* and the turn scheduler.                                                 *)
(*                                                                         *)
(* Addresses are the numbers 1..NumAddrs, ordered as the byte-wise         *)
(* ascending order of addresses; 0 is the zero address.  A header carries  *)
(* the fields the engine reads: Number, Coinbase, Nonce, Difficulty, the   *)
(* signer list of its extra-data (Extra) and the account whose key made    *)
(* its seal (Seal, 0 when no account can be recovered from it).            *)
(*                                                                         *)
(* The Snapshot type and its methods (newSnapshot, validVote, cast,        *)
(* uncast, apply, signers, inturn) live in consensus/clique/snapshot.go;   *)
(* they are written here after the specification's section 3 and 4.3/4.4,  *)
(* which describe the standard clique replay algorithm.                    *)
(***************************************************************************)
EXTENDS Integers, Sequences, FiniteSets, TLC

VARIABLES
    snap,       \* the Snapshot of the chain head (what c.snapshot resolves for it)
    snapErr,    \* the error c.snapshot returns for the chain head, "nil" if none
    last,       \* the verdict of the last verifyHeader call: the header's number,
                \* sealing account and difficulty, and the error returned
    pending,    \* the header verifyHeader accepted, waiting to be appended
    fakeDiff,   \* Clique.fakeDiff: skip difficulty verification (New leaves it unset)
    change,     \* history: what the last apply that changed Signers did
    signer,     \* Clique.signer: the local signing address
    calc,       \* the last result of CalcDifficulty, or NoCalc
    cleared,    \* history: the pending votes the last checkpoint replay discarded
    batch,      \* the headers gathered for a replay on top of snap, oldest first
    db,         \* the chain database: the headers the node holds
    recents,    \* Clique.recents: the snapshots in memory, by block hash
    disk,       \* the snapshots persisted in Clique.db, by block hash
    res,        \* the outcome of the last c.snapshot call, or NoRes
    vh,         \* the run of VerifyHeaders: the batch, the goroutine's position,
                \* the results channel, the abort channel, what was verified
    fin,        \* the executions of Finalize on one header: what each did
    signFn,     \* Clique.signFn: the account whose key the signer function
                \* signs with, the zero address while it is nil
    mu,         \* Clique.lock: how many read locks are held, the caller
                \* holding it for writing, the callers waiting in Lock
    th,         \* the callers of the engine: the method each is in, its
                \* position, its locals and what it returned
    seal,       \* the last call of Seal: its inputs, the error it returned,
                \* the waiting goroutine, the stop and the results channels
    proposals,  \* Clique.proposals: the votes the node is pushing
    prep,       \* the last call of Prepare: the header it filled in
    clock       \* time.Now(), in units of wiggleTime

\* The variables of the replay.
replayVars == <<batch>>

\* The variables of snapshot resolution.
chainVars == <<db, recents, disk, res, vh, fin>>

\* The variables of the local signer, its lock and of sealing.
sealVars == <<signFn, mu, th, seal>>

\* The variables of block production.
mineVars == <<proposals, prep, clock>>

vars == <<snap, snapErr, last, pending, fakeDiff, change, signer, calc, cleared,
          replayVars, chainVars, sealVars, mineVars>>

-----------------------------------------------------------------------------
(* Bounds of the model *)

NumAddrs == 4
MaxNumber == 4
Epoch == 4
MaxBatch == 3

\* The snapshots the memory cache takes in before a restart.
MaxCached == 2

\* The accounts of the local wallet, 1..NumAccounts.
NumAccounts == 2

\* The goroutines that call the engine at the same time.
NumCallers == 2

Addrs == 1..NumAddrs
ZeroAddress == 0

-----------------------------------------------------------------------------
(* Protocol constants *)

diffInTurn == 2
diffNoTurn == 1

nonceAuthVote == "0xffffffffffffffff"
nonceDropVote == "0x0000000000000000"
nonceOther == "0x1234567890abcdef"

\* checkpointInterval, the number of blocks after which the snapshot is
\* saved to the database, scaled from 1024 to 2.
checkpointInterval == 2

\* params.FullImmutabilityThreshold, the number of gathered headers above
\* which a checkpoint is trusted, scaled from 90000 to 1.
FullImmutabilityThreshold == 1

\* common.AddressLength, the bytes of one address in a checkpoint signer
\* list, scaled from 20 to 2: address a is the bytes <<0, a>>.
AddressLength == 2

\* uint64 arithmetic wraps modulo 2^64.  TLC's integers are 32 bits wide, so
\* the modulus is represented by 2^30: every block number and window of the
\* model is far below it, and each comparison comes out as it does modulo 2^64.
Uint64Modulus == 2^30

Uint64Sub(a, b) == (a - b) % Uint64Modulus

-----------------------------------------------------------------------------
(* Snapshot (consensus/clique/snapshot.go) *)

newSnapshot(number, signerSet) ==
    [Number |-> number, Signers |-> signerSet, Recents |-> <<>>,
     Votes |-> <<>>, Tally |-> <<>>, SignerActives |-> {}]

RECURSIVE SortAscending(_)
SortAscending(S) ==
    IF S = {} THEN <<>>
    ELSE LET m == CHOOSE x \in S : \A y \in S : x <= y
         IN <<m>> \o SortAscending(S \ {m})

\* signers retrieves the list of authorized signers in ascending order.
signers(s) == SortAscending(s.Signers)

\* The anti-spam window of a signer set of n members: len(Signers)/2 + 1.
RecentLimit(n) == (n \div 2) + 1

\* offset of the signer in the ascending list (its length when absent),
\* compared with number % len(signers).  Only used with a non-empty set.
inturn(s, number, addr) ==
    LET ss == signers(s)
        before == {i \in 1..Len(ss) : \A j \in 1..i : ss[j] # addr}
        offset == Cardinality(before)
    IN (number % Len(ss)) = offset

\* validVote: a vote makes sense if it adds a non-signer or drops a signer.
validVote(s, address, authorize) ==
    LET isSigner == address \in s.Signers
    IN (isSigner /\ ~authorize) \/ (~isSigner /\ authorize)

Without(f, k) == [x \in (DOMAIN f) \ {k} |-> f[x]]

\* cast adds a new vote into the tally (only a valid one); the result is the
\* new tally.
cast(s, address, authorize) ==
    IF ~validVote(s, address, authorize) THEN s.Tally
    ELSE IF address \in DOMAIN s.Tally
         THEN [s.Tally EXCEPT ![address].Votes = @ + 1]
         ELSE (address :> [Authorize |-> authorize, Votes |-> 1]) @@ s.Tally

\* uncast removes a previously cast vote from the tally.
uncast(tally, address, authorize) ==
    IF address \notin DOMAIN tally THEN tally
    ELSE IF tally[address].Authorize # authorize THEN tally
    ELSE IF tally[address].Votes > 1
         THEN [tally EXCEPT ![address].Votes = @ - 1]
         ELSE Without(tally, address)

RECURSIVE uncastAll(_, _)
uncastAll(tally, votes) ==
    IF votes = <<>> THEN tally
    ELSE uncastAll(uncast(tally, Head(votes).Address, Head(votes).Authorize),
                   Tail(votes))

\* The votes of a list that satisfy none of: cast by `by`, cast on `on`.
votesNotBy(votes, by) == SelectSeq(votes, LAMBDA v : v.Signer # by)
votesBy(votes, by) == SelectSeq(votes, LAMBDA v : v.Signer = by)
votesNotOn(votes, on) == SelectSeq(votes, LAMBDA v : v.Address # on)

\* pruneRecents that never lets an entry leave.
pruneRecents_Never(recent, number, n) == recent

\* The oldest entry leaves Recents once the block number reaches the window.
pruneRecents(recent, number, n) ==
    IF number >= RecentLimit(n)
    THEN Without(recent, number - RecentLimit(n))
    ELSE recent

\* applyVote that tallies the vote without recording it in Votes.
applyVote_NoRecord(s, h) ==
    LET authorize == h.Nonce = nonceAuthVote
    IN [s EXCEPT !.Tally = cast(s, h.Coinbase, authorize)]

\* The header's vote, on a non-checkpoint block with a non-zero beneficiary:
\* the signer's earlier vote on the same address is discarded, the new vote
\* is tallied when it is valid.
applyVote(s, h) ==
    LET authorize == h.Nonce = nonceAuthVote
        earlier == SelectSeq(s.Votes, LAMBDA v :
                       v.Signer = h.Seal /\ v.Address = h.Coinbase)
        votes1 == SelectSeq(s.Votes, LAMBDA v :
                       ~(v.Signer = h.Seal /\ v.Address = h.Coinbase))
        s1 == [s EXCEPT !.Votes = votes1,
                        !.Tally = uncastAll(s.Tally, earlier)]
    IN IF validVote(s1, h.Coinbase, authorize)
       THEN [s1 EXCEPT !.Tally = cast(s1, h.Coinbase, authorize),
                       !.Votes = Append(votes1,
                                   [Signer |-> h.Seal, Block |-> h.Number,
                                    Address |-> h.Coinbase,
                                    Authorize |-> authorize])]
       ELSE s1

\* applyMajority that lets a vote pass with half of the signers.
applyMajority_AtHalf(s, h) ==
    LET target == h.Coinbase
        passed == /\ target \in DOMAIN s.Tally
                  /\ s.Tally[target].Votes >= Cardinality(s.Signers) \div 2
    IN IF ~passed THEN s
       ELSE LET s1 == IF s.Tally[target].Authorize
                      THEN [s EXCEPT !.Signers = @ \cup {target}]
                      ELSE LET left == s.Signers \ {target}
                           IN [s EXCEPT
                                 !.Signers = left,
                                 !.Recents = pruneRecents(@, h.Number,
                                                          Cardinality(left)),
                                 !.Tally = uncastAll(@, votesBy(s.Votes, target)),
                                 !.Votes = votesNotBy(@, target)]
            IN [s1 EXCEPT !.Votes = votesNotOn(@, target),
                          !.Tally = Without(@, target)]

\* applyMajority that keeps the votes a removed signer had cast.
applyMajority_KeepsRemovedVotes(s, h) ==
    LET target == h.Coinbase
        passed == /\ target \in DOMAIN s.Tally
                  /\ s.Tally[target].Votes > Cardinality(s.Signers) \div 2
    IN IF ~passed THEN s
       ELSE LET s1 == IF s.Tally[target].Authorize
                      THEN [s EXCEPT !.Signers = @ \cup {target}]
                      ELSE LET left == s.Signers \ {target}
                           IN [s EXCEPT
                                 !.Signers = left,
                                 !.Recents = pruneRecents(@, h.Number,
                                                          Cardinality(left))]
            IN [s1 EXCEPT !.Votes = votesNotOn(@, target),
                          !.Tally = Without(@, target)]

\* The vote passed: the signer set changes on this very block, the votes of a
\* removed signer are discarded, Recents is clipped to the smaller window,
\* and every vote on the changed address is cleared.
applyMajority(s, h) ==
    LET target == h.Coinbase
        passed == /\ target \in DOMAIN s.Tally
                  /\ s.Tally[target].Votes > Cardinality(s.Signers) \div 2
    IN IF ~passed THEN s
       ELSE LET s1 == IF s.Tally[target].Authorize
                      THEN [s EXCEPT !.Signers = @ \cup {target}]
                      ELSE LET left == s.Signers \ {target}
                           IN [s EXCEPT
                                 !.Signers = left,
                                 !.Recents = pruneRecents(@, h.Number,
                                                          Cardinality(left)),
                                 !.Tally = uncastAll(@, votesBy(s.Votes, target)),
                                 !.Votes = votesNotBy(@, target)]
            IN [s1 EXCEPT !.Votes = votesNotOn(@, target),
                          !.Tally = Without(@, target)]

\* applyHeader that keeps the pending votes across a checkpoint.
applyHeader_NoReset(s, h) ==
    IF h.Number # s.Number + 1
    THEN [err |-> "errInvalidVotingChain", snap |-> s]
    ELSE
    LET checkpoint == h.Number % Epoch = 0
        s2 == [s EXCEPT !.Recents = pruneRecents(@, h.Number,
                                                 Cardinality(s.Signers))]
    IN IF h.Seal = ZeroAddress
       THEN [err |-> "errInvalidSignature", snap |-> s]
       ELSE IF h.Seal \notin s2.Signers
       THEN [err |-> "errUnauthorizedSigner", snap |-> s]
       ELSE IF \E seen \in DOMAIN s2.Recents : s2.Recents[seen] = h.Seal
       THEN [err |-> "errRecentlySigned", snap |-> s]
       ELSE
       LET s3 == [s2 EXCEPT !.Recents = (h.Number :> h.Seal) @@ @,
                            !.Number = h.Number]
           s4 == IF ~checkpoint /\ h.Coinbase # ZeroAddress
                 THEN applyMajority(applyVote(s3, h), h)
                 ELSE s3
       IN [err |-> "nil", snap |-> s4]

\* apply of one header on top of a snapshot: [err, snap].
applyHeader(s, h) ==
    IF h.Number # s.Number + 1
    THEN [err |-> "errInvalidVotingChain", snap |-> s]
    ELSE
    LET checkpoint == h.Number % Epoch = 0
        s1 == IF checkpoint THEN [s EXCEPT !.Votes = <<>>, !.Tally = <<>>] ELSE s
        s2 == [s1 EXCEPT !.Recents = pruneRecents(@, h.Number,
                                                  Cardinality(s.Signers))]
    IN IF h.Seal = ZeroAddress
       THEN [err |-> "errInvalidSignature", snap |-> s]
       ELSE IF h.Seal \notin s2.Signers
       THEN [err |-> "errUnauthorizedSigner", snap |-> s]
       ELSE IF \E seen \in DOMAIN s2.Recents : s2.Recents[seen] = h.Seal
       THEN [err |-> "errRecentlySigned", snap |-> s]
       ELSE
       LET s3 == [s2 EXCEPT !.Recents = (h.Number :> h.Seal) @@ @,
                            !.Number = h.Number]
           s4 == IF ~checkpoint /\ h.Coinbase # ZeroAddress
                 THEN applyMajority(applyVote(s3, h), h)
                 ELSE s3
       IN [err |-> "nil", snap |-> s4]

\* The result of a replay that failed carries no snapshot.
NullSnapshot == newSnapshot(0, {})

\* apply of a list of headers seen as one batch: the anti-spam window is the
\* one of the signer set the batch started with.
RECURSIVE applyBatchWindow(_, _, _)
applyBatchWindow(s, hs, n) ==
    IF hs = <<>> THEN [err |-> "nil", snap |-> s]
    ELSE LET h == Head(hs)
             r == applyHeader([s EXCEPT !.Recents =
                                  pruneRecents(@, h.Number, n)], h)
         IN IF r.err # "nil" THEN [err |-> r.err, snap |-> NullSnapshot]
            ELSE applyBatchWindow(r.snap, Tail(hs), n)

applyHeaders_BatchWindow(s, hs) ==
    applyBatchWindow(s, hs, Cardinality(s.Signers))

\* apply of a list of headers, oldest first: each header on the snapshot the
\* one before it left; the first error ends the replay.
RECURSIVE applyHeaders(_, _)
applyHeaders(s, hs) ==
    IF hs = <<>> THEN [err |-> "nil", snap |-> s]
    ELSE LET r == applyHeader(s, Head(hs))
         IN IF r.err # "nil" THEN [err |-> r.err, snap |-> NullSnapshot]
            ELSE applyHeaders(r.snap, Tail(hs))

-----------------------------------------------------------------------------
(* The engine (consensus/clique/clique.go) *)

\* ecrecover: the account recovered from the seal, or an error.
ecrecover(h) ==
    IF h.Seal = ZeroAddress
    THEN [err |-> "errInvalidSignature", signer |-> ZeroAddress]
    ELSE [err |-> "nil", signer |-> h.Seal]

\* verifySeal without the membership check.
verifySeal_NoMembership(s, h, fake) ==
    LET number == h.Number
        rec == ecrecover(h)
        limit == RecentLimit(Cardinality(s.Signers))
    IN IF number = 0 THEN "errUnknownBlock"
       ELSE IF rec.err # "nil" THEN rec.err
       ELSE IF \E seen \in DOMAIN s.Recents :
                  /\ s.Recents[seen] = rec.signer
                  /\ seen > Uint64Sub(number, limit)
       THEN "errRecentlySigned"
       ELSE IF s.Signers = {} THEN "nil"
       ELSE IF ~fake /\ inturn(s, number, rec.signer)
                    /\ h.Difficulty # diffInTurn
       THEN "errWrongDifficulty"
       ELSE IF ~fake /\ ~inturn(s, number, rec.signer)
                    /\ h.Difficulty # diffNoTurn
       THEN "errWrongDifficulty"
       ELSE "nil"

\* verifySeal with the two difficulties exchanged.
verifySeal_SwappedDifficulty(s, h, fake) ==
    LET number == h.Number
        rec == ecrecover(h)
        limit == RecentLimit(Cardinality(s.Signers))
    IN IF number = 0 THEN "errUnknownBlock"
       ELSE IF rec.err # "nil" THEN rec.err
       ELSE IF rec.signer \notin s.Signers THEN "errUnauthorizedSigner"
       ELSE IF \E seen \in DOMAIN s.Recents :
                  /\ s.Recents[seen] = rec.signer
                  /\ seen > Uint64Sub(number, limit)
       THEN "errRecentlySigned"
       ELSE IF ~fake /\ inturn(s, number, rec.signer)
                    /\ h.Difficulty # diffNoTurn
       THEN "errWrongDifficulty"
       ELSE IF ~fake /\ ~inturn(s, number, rec.signer)
                    /\ h.Difficulty # diffInTurn
       THEN "errWrongDifficulty"
       ELSE "nil"

\* verifySeal: the signature of the header satisfies the protocol on top of
\* the parent snapshot s.  number - limit is a uint64 subtraction.
verifySeal(s, h, fake) ==
    LET number == h.Number
        rec == ecrecover(h)
        limit == RecentLimit(Cardinality(s.Signers))
    IN IF number = 0 THEN "errUnknownBlock"
       ELSE IF rec.err # "nil" THEN rec.err
       ELSE IF rec.signer \notin s.Signers THEN "errUnauthorizedSigner"
       ELSE IF \E seen \in DOMAIN s.Recents :
                  /\ s.Recents[seen] = rec.signer
                  /\ seen > Uint64Sub(number, limit)
       THEN "errRecentlySigned"
       ELSE IF ~fake /\ inturn(s, number, rec.signer)
                    /\ h.Difficulty # diffInTurn
       THEN "errWrongDifficulty"
       ELSE IF ~fake /\ ~inturn(s, number, rec.signer)
                    /\ h.Difficulty # diffNoTurn
       THEN "errWrongDifficulty"
       ELSE "nil"

\* The bytes of a list of addresses, as a checkpoint header carries them.
RECURSIVE signersBytes(_)
signersBytes(list) ==
    IF list = <<>> THEN <<>>
    ELSE <<0, Head(list)>> \o signersBytes(Tail(list))

\* verifyCascadingFields that compares the members of the checkpoint list
\* and not their order.
verifyCascadingFields_AnyOrder(s, serr, h, fake) ==
    IF h.Number = 0 THEN "nil"
    ELSE IF serr # "nil" THEN serr
    ELSE IF h.Number % Epoch = 0
            /\ ~(/\ Len(h.Extra) = Len(signersBytes(signers(s)))
                 /\ {h.Extra[i] : i \in DOMAIN h.Extra}
                      = {0} \cup s.Signers)
    THEN "errMismatchingCheckpointSigners"
    ELSE verifySeal(s, h, fake)

\* verifyCascadingFields: the checks that need the parent snapshot, which
\* c.snapshot resolved as s or failed to resolve with the error serr.
verifyCascadingFields(s, serr, h, fake) ==
    IF h.Number = 0 THEN "nil"
    ELSE IF serr # "nil" THEN serr
    ELSE IF h.Number % Epoch = 0 /\ h.Extra # signersBytes(signers(s))
    THEN "errMismatchingCheckpointSigners"
    ELSE verifySeal(s, h, fake)

\* The standalone checks of verifyHeader without the two checks that hold
\* for checkpoint blocks only.
verifyHeaderFields_NoCheckpointRules(h) ==
    LET checkpoint == h.Number % Epoch = 0
    IN IF h.Time = "future" THEN "ErrFutureBlock"
       ELSE IF h.Nonce # nonceAuthVote /\ h.Nonce # nonceDropVote
       THEN "errInvalidVote"
       ELSE IF h.Layout = "short" THEN "errMissingVanity"
       ELSE IF h.Layout = "vanity" THEN "errMissingSignature"
       ELSE IF ~checkpoint /\ Len(h.Extra) # 0
       THEN "errExtraSigners"
       ELSE IF checkpoint /\ Len(h.Extra) % AddressLength # 0
       THEN "errInvalidCheckpointSigners"
       ELSE IF h.MixDigest # "zero" THEN "errInvalidMixDigest"
       ELSE IF h.UncleHash # "empty" THEN "errInvalidUncleHash"
       ELSE IF h.Number > 0 /\ h.Difficulty # diffInTurn
                            /\ h.Difficulty # diffNoTurn
       THEN "errInvalidDifficulty"
       ELSE IF h.GasLimit = "over" THEN "invalid gasLimit"
       ELSE IF h.ForkHash # "ok" THEN "fork hash mismatch"
       ELSE "nil"

\* The standalone checks of verifyHeader, in the order of the code: the
\* first error, or "nil".  Layout tells how long the extra-data is: "short"
\* (less than the vanity), "vanity" (less than vanity and seal) or "full",
\* and Extra is what lies between the vanity and the seal.
verifyHeaderFields(h) ==
    LET checkpoint == h.Number % Epoch = 0
    IN IF h.Time = "future" THEN "ErrFutureBlock"
       ELSE IF checkpoint /\ h.Coinbase # ZeroAddress
       THEN "errInvalidCheckpointBeneficiary"
       ELSE IF h.Nonce # nonceAuthVote /\ h.Nonce # nonceDropVote
       THEN "errInvalidVote"
       ELSE IF checkpoint /\ h.Nonce # nonceDropVote
       THEN "errInvalidCheckpointVote"
       ELSE IF h.Layout = "short" THEN "errMissingVanity"
       ELSE IF h.Layout = "vanity" THEN "errMissingSignature"
       ELSE IF ~checkpoint /\ Len(h.Extra) # 0
       THEN "errExtraSigners"
       ELSE IF checkpoint /\ Len(h.Extra) % AddressLength # 0
       THEN "errInvalidCheckpointSigners"
       ELSE IF h.MixDigest # "zero" THEN "errInvalidMixDigest"
       ELSE IF h.UncleHash # "empty" THEN "errInvalidUncleHash"
       ELSE IF h.Number > 0 /\ h.Difficulty # diffInTurn
                            /\ h.Difficulty # diffNoTurn
       THEN "errInvalidDifficulty"
       ELSE IF h.GasLimit = "over" THEN "invalid gasLimit"
       ELSE IF h.ForkHash # "ok" THEN "fork hash mismatch"
       ELSE "nil"

\* verifyHeader: the standalone checks, then the cascading ones.
verifyHeader(s, serr, h, fake) ==
    IF verifyHeaderFields(h) # "nil" THEN verifyHeaderFields(h)
    ELSE verifyCascadingFields(s, serr, h, fake)

\* calcDifficulty taking the turn of the snapshot's own block.
calcDifficulty_ParentNumber(s, addr) ==
    IF s.Signers = {} THEN [panic |-> TRUE, diff |-> 0]
    ELSE IF inturn(s, s.Number, addr)
    THEN [panic |-> FALSE, diff |-> diffInTurn]
    ELSE [panic |-> FALSE, diff |-> diffNoTurn]

\* calcDifficulty: the difficulty a block signed by addr on top of s should
\* have.  With no signer left the turn index number % 0 is a run-time panic.
calcDifficulty(s, addr) ==
    IF s.Signers = {} THEN [panic |-> TRUE, diff |-> 0]
    ELSE IF inturn(s, s.Number + 1, addr)
    THEN [panic |-> FALSE, diff |-> diffInTurn]
    ELSE [panic |-> FALSE, diff |-> diffNoTurn]

-----------------------------------------------------------------------------
(* State machine: headers are verified on top of the chain head and, once
   accepted, appended to the chain; the snapshot of the new head is the
   replay of the header on the snapshot of its parent. *)

NoHash == <<"none", 0>>

NullHeader ==
    [Number |-> 0, Coinbase |-> ZeroAddress, Nonce |-> nonceDropVote,
     Difficulty |-> 0, Extra |-> <<>>, Seal |-> ZeroAddress,
     Time |-> "ok", Layout |-> "full", MixDigest |-> "zero",
     UncleHash |-> "empty", GasLimit |-> "ok", ForkHash |-> "ok",
     GasUsed |-> "ok", Fee |-> "ok",
     Hash |-> NoHash, ParentHash |-> NoHash]

NoRes ==
    [set |-> FALSE, number |-> 0, hash |-> NoHash, parents |-> <<>>,
     err |-> "nil", snap |-> newSnapshot(0, {}), snapHash |-> NoHash,
     base |-> "none", baseNumber |-> 0, baseHash |-> NoHash,
     baseSnap |-> newSnapshot(0, {}),
     gathered |-> <<>>, stopNumber |-> 0, stopHash |-> NoHash,
     stopParents |-> <<>>]

\* The callers of the engine.
Callers == 1..NumCallers

\* Clique.lock with no holder.
NoLock == [readers |-> 0, writer |-> 0, waiting |-> {}]

\* A caller that is in no method of the engine.
IdleCaller ==
    [op |-> "none", pc |-> "idle", arg |-> 0, number |-> 0, parent |-> FALSE,
     bridge |-> "unused", snap |-> NullSnapshot, signer |-> 0, signFn |-> 0,
     err |-> "nil", prepared |-> {}]

\* No call of Seal yet, on a chain with Config.Period 0.  task is the
\* position of the goroutine Seal starts: "none" while there is none,
\* "waiting" in its first select, "publishing" before its second select,
\* "stopped" or "done" once it has returned.
NoSeal ==
    [called |-> FALSE, period |-> 0, number |-> 0, txs |-> 0, signer |-> 0,
     snapErr |-> "none", snap |-> NullSnapshot, err |-> "nil",
     task |-> "none", stop |-> FALSE, stopFirst |-> FALSE, ready |-> FALSE,
     sent |-> 0, dropped |-> 0,
     difficulty |-> 0, time |-> 0, at |-> 0, delay |-> 0]

\* No call of Prepare yet.
NoPrep ==
    [set |-> FALSE, calls |-> 0, err |-> "nil", header |-> NullHeader,
     snap |-> NullSnapshot, signer |-> ZeroAddress, period |-> 0,
     parentTime |-> 0, time |-> 0, length |-> 0]

\* Block production after New: no proposal, nothing prepared.
IdleMiner ==
    /\ proposals = {}
    /\ prep = NoPrep
    /\ clock = 0

\* The state of the signer, the lock and of sealing after New.
IdleSealing ==
    /\ signFn = ZeroAddress
    /\ mu = NoLock
    /\ th = [t \in Callers |-> IdleCaller]
    /\ seal = NoSeal
    /\ IdleMiner

\* No batch handed to VerifyHeaders.
NoBatch ==
    [headers |-> <<>>, i |-> 0, phase |-> "idle", err |-> "nil",
     results |-> <<>>, aborted |-> FALSE, abortAt |-> 0, trace |-> <<>>]

NoLast ==
    [set |-> FALSE, Number |-> 0, Seal |-> ZeroAddress, Difficulty |-> 0,
     Extra |-> <<>>, err |-> "nil"]
NoChange == [at |-> 0, kind |-> "none", addr |-> ZeroAddress, purged |-> 0]
NoCalc == [set |-> FALSE, signer |-> ZeroAddress, panic |-> FALSE, diff |-> 0]

Reverse(q) == [i \in 1..Len(q) |-> q[Len(q) + 1 - i]]

\* The signer list a header of the given number should carry.
RightExtra(s, number) ==
    IF number % Epoch = 0 THEN signersBytes(signers(s)) ELSE <<>>

\* Signer lists that are not the snapshot's: another order, another member,
\* one address less, one more, and one byte less.
WrongExtras(s) ==
    LET ss == signers(s)
        right == signersBytes(ss)
    IN {signersBytes(Reverse(ss)),
        signersBytes([ss EXCEPT ![1] = (ss[1] % NumAddrs) + 1]),
        signersBytes(Tail(ss)),
        right \o <<0, ss[1]>>,
        Tail(right)} \ {right}

\* The headers offered for block `number` on top of snapshot s: every
\* combination of sealing account, beneficiary, vote nonce and canonical
\* difficulty with the extra-data the block number asks for, and headers
\* with one field malformed.
Headers(s, number) ==
    LET wellFormed ==
            {[NullHeader EXCEPT !.Number = number, !.Coinbase = c, !.Nonce = n,
                                !.Difficulty = d, !.Seal = a,
                                !.Extra = RightExtra(s, number)] :
                 c \in {ZeroAddress} \cup Addrs,
                 n \in {nonceAuthVote, nonceDropVote},
                 d \in {diffInTurn, diffNoTurn}, a \in Addrs}
        base(a) ==
            [NullHeader EXCEPT !.Number = number, !.Difficulty = diffNoTurn,
                               !.Seal = a, !.Extra = RightExtra(s, number)]
        malformed ==
            UNION {{[base(a) EXCEPT !.Seal = ZeroAddress],
                    [base(a) EXCEPT !.Nonce = nonceOther],
                    [base(a) EXCEPT !.Difficulty = 3],
                    [base(a) EXCEPT !.Time = "future"],
                    [base(a) EXCEPT !.Layout = "short"],
                    [base(a) EXCEPT !.Layout = "vanity"],
                    [base(a) EXCEPT !.MixDigest = "other"],
                    [base(a) EXCEPT !.UncleHash = "other"],
                    [base(a) EXCEPT !.GasLimit = "over"]}
                   \cup {[base(a) EXCEPT !.Extra = x] :
                            x \in IF s.Signers = {} THEN {}
                                  ELSE WrongExtras(s)} : a \in Addrs}
    IN wellFormed \cup malformed

Init ==
    /\ \E lo \in Addrs, hi \in Addrs :
          lo <= hi /\ snap = newSnapshot(0, lo..hi)
    /\ snapErr = "nil"
    /\ last = NoLast
    /\ pending = NullHeader
    /\ fakeDiff = FALSE
    /\ change = NoChange
    /\ signer = ZeroAddress
    /\ calc = NoCalc
    /\ cleared = 0
    /\ batch = <<>>
    /\ db = {} /\ recents = <<>> /\ disk = <<>> /\ res = NoRes /\ vh = NoBatch /\ fin = <<>>
    /\ IdleSealing

\* The number of the chain head: the snapshot's, or one more when the
\* snapshot of the head could not be replayed.
HeadNumber == IF snapErr = "nil" THEN snap.Number ELSE snap.Number + 1

\* VerifyHeader: a header on top of the chain head is checked.
VerifyHeader ==
    /\ ~last.set
    /\ HeadNumber < MaxNumber
    /\ \E h \in Headers(snap, HeadNumber + 1) :
          LET err == verifyHeader(snap, snapErr, h, fakeDiff)
          IN /\ last' = [set |-> TRUE, Number |-> h.Number, Seal |-> h.Seal,
                         Difficulty |-> h.Difficulty, Extra |-> h.Extra,
                         err |-> err]
             /\ pending' = IF err = "nil" THEN h ELSE NullHeader
    /\ UNCHANGED <<snap, snapErr, fakeDiff, change, signer, calc, cleared, replayVars, chainVars, sealVars, mineVars>>

\* What a replay did to the signer set.
ChangeOf(s, h, t) ==
    IF t.Signers = s.Signers THEN change
    ELSE [at |-> h.Number,
          kind |-> IF h.Coinbase \in t.Signers THEN "add" ELSE "drop",
          addr |-> h.Coinbase,
          purged |-> IF h.Coinbase \in t.Signers THEN 0
                     ELSE Len(votesNotOn(votesBy(s.Votes, h.Coinbase),
                                         h.Coinbase))]

\* InsertHeader: the accepted header becomes the chain head; the snapshot of
\* the new head is apply of the header on the parent snapshot.
InsertHeader ==
    /\ last.set /\ last.err = "nil"
    /\ LET r == applyHeader(snap, pending)
       IN IF r.err = "nil"
          THEN /\ snap' = r.snap
               /\ snapErr' = "nil"
               /\ change' = ChangeOf(snap, pending, r.snap)
               /\ cleared' = IF pending.Number % Epoch = 0
                              THEN Len(snap.Votes) ELSE cleared
          ELSE /\ snapErr' = r.err
               /\ UNCHANGED <<snap, change, cleared>>
    /\ last' = NoLast
    /\ pending' = NullHeader
    /\ UNCHANGED <<fakeDiff, signer, calc, replayVars, chainVars, sealVars, mineVars>>

\* DropHeader: a rejected header is discarded by the importer.
DropHeader ==
    /\ last.set /\ last.err # "nil"
    /\ last' = NoLast
    /\ UNCHANGED <<snap, snapErr, pending, fakeDiff, change, signer, calc, cleared, replayVars, chainVars, sealVars, mineVars>>

Next == VerifyHeader \/ InsertHeader \/ DropHeader

Spec == Init /\ [][Next]_vars

-----------------------------------------------------------------------------
(* The turn scheduler on its own: any signer set at any block number, the
   local signer installed by Authorize, the difficulty asked by
   CalcDifficulty. *)

InitDifficulty ==
    /\ \E n \in 0..MaxNumber, set \in SUBSET Addrs : snap = newSnapshot(n, set)
    /\ snapErr = "nil"
    /\ last = NoLast
    /\ pending = NullHeader
    /\ fakeDiff = FALSE
    /\ change = NoChange
    /\ signer = ZeroAddress
    /\ calc = NoCalc
    /\ cleared = 0
    /\ batch = <<>>
    /\ db = {} /\ recents = <<>> /\ disk = <<>> /\ res = NoRes /\ vh = NoBatch /\ fin = <<>>
    /\ IdleSealing

\* Authorize installs the local signing address and its signer function.
Authorize ==
    /\ \E a \in Addrs : signer' = a /\ signFn' = a
    /\ UNCHANGED <<snap, snapErr, last, pending, fakeDiff, change, calc, cleared, replayVars, chainVars, mu, th, seal, mineVars>>

\* CalcDifficulty: the difficulty of a block of the local signer on top of
\* the parent whose snapshot is snap.
CalcDifficulty ==
    /\ snapErr = "nil"
    /\ LET r == calcDifficulty(snap, signer)
       IN calc' = [set |-> TRUE, signer |-> signer,
                   panic |-> r.panic, diff |-> r.diff]
    /\ UNCHANGED <<snap, snapErr, last, pending, fakeDiff, change, signer, cleared, replayVars, chainVars, sealVars, mineVars>>

NextDifficulty == Authorize \/ CalcDifficulty

SpecDifficulty == InitDifficulty /\ [][NextDifficulty]_vars

-----------------------------------------------------------------------------
(* Header replay on its own: headers are gathered on top of a base snapshot,
   and the base advances over the oldest gathered header, as a cached
   intermediate snapshot does. *)

\* The headers a replay may meet at block `number`: every sealing account
\* with every vote, and no vote.
ReplayHeaders(number) ==
    {[NullHeader EXCEPT !.Number = number, !.Coinbase = c, !.Nonce = n,
                        !.Difficulty = diffNoTurn, !.Seal = a] :
         c \in {ZeroAddress} \cup Addrs,
         n \in {nonceAuthVote, nonceDropVote}, a \in Addrs}

InitReplay == Init

\* One more header is gathered, as long as the replay of the gathered ones
\* succeeds.
GatherHeader ==
    /\ snap.Number + Len(batch) < MaxNumber
    /\ Len(batch) < MaxBatch
    /\ applyHeaders(snap, batch).err = "nil"
    /\ \E h \in ReplayHeaders(snap.Number + Len(batch) + 1) :
          batch' = Append(batch, h)
    /\ UNCHANGED <<snap, snapErr, last, pending, fakeDiff, change, signer,
                   calc, cleared, chainVars, sealVars, mineVars>>

\* The base advances over the oldest gathered header.
AdvanceBase ==
    /\ batch # <<>>
    /\ applyHeader(snap, Head(batch)).err = "nil"
    /\ snap' = applyHeader(snap, Head(batch)).snap
    /\ batch' = Tail(batch)
    /\ UNCHANGED <<snapErr, last, pending, fakeDiff, change, signer, calc,
                   cleared, chainVars, sealVars, mineVars>>

NextReplay == GatherHeader \/ AdvanceBase

SpecReplay == InitReplay /\ [][NextReplay]_vars

-----------------------------------------------------------------------------
(* Snapshot resolution: the chain database holds part of a chain of headers,
   c.snapshot walks back from a block to a base (a snapshot in memory, a
   persisted one, the genesis or a trusted checkpoint) and replays the
   headers it gathered. *)

Min(a, b) == IF a < b THEN a ELSE b
Last(q) == q[Len(q)]
Front(q) == SubSeq(q, 1, Len(q) - 1)

\* The signers of the chain's genesis, and the account that is none of them.
ChainSigners == Addrs
Outsider == NumAddrs + 1

\* The chain reaches high enough for a walk to pile up more than
\* FullImmutabilityThreshold headers above the checkpoint at Epoch.
ChainTop == Epoch + FullImmutabilityThreshold + 1
ForkAt == Epoch \div 2

MainHash(n) == <<"main", n>>
ForkHash(n) == <<"fork", n>>

\* The signer in turn / next in turn at block n among the chain's signers.
TurnOf(n) == SortAscending(ChainSigners)[(n % Cardinality(ChainSigners)) + 1]

\* The canonical chain: block n sealed by the signer in turn, the signer
\* list in the extra-data of the genesis and of every checkpoint.
MainHeader(n) ==
    [NullHeader EXCEPT
        !.Number = n,
        !.Hash = MainHash(n),
        !.ParentHash = IF n = 0 THEN NoHash ELSE MainHash(n - 1),
        !.Seal = IF n = 0 THEN ZeroAddress ELSE TurnOf(n),
        !.Difficulty = IF n = 0 THEN diffNoTurn ELSE diffInTurn,
        !.Extra = IF n % Epoch = 0
                  THEN signersBytes(SortAscending(ChainSigners)) ELSE <<>>]

\* A side chain of two blocks, sealed out of turn, branching off at ForkAt.
ForkHeader(n) ==
    [NullHeader EXCEPT
        !.Number = n,
        !.Hash = ForkHash(n),
        !.ParentHash = IF n = ForkAt THEN MainHash(n - 1) ELSE ForkHash(n - 1),
        !.Seal = TurnOf(n + 1),
        !.Difficulty = diffNoTurn]

MainChain == {MainHeader(n) : n \in 0..ChainTop}
SideChain == {ForkHeader(n) : n \in ForkAt..(ForkAt + 1)}
Universe == MainChain \cup SideChain

\* The databases a node may hold: the genesis and a stretch of the
\* canonical chain (its older history pruned, or its newer blocks not
\* imported yet), with or without the side chain.
Databases ==
    {{MainHeader(0)} \cup {MainHeader(n) : n \in lo..hi} \cup side :
        lo \in {0, Epoch - 1, Epoch}, hi \in {ForkAt + 1, ChainTop},
        side \in {{}, SideChain}}

\* chain.GetHeaderByNumber: the canonical header of that number, if held.
GetHeaderByNumber(dbs, number) ==
    {h \in dbs : h.Number = number /\ h.Hash[1] = "main"}

\* chain.GetHeader: the header of that hash and number, if held.
GetHeader(dbs, hash, number) ==
    {h \in dbs : h.Hash = hash /\ h.Number = number}

\* The signer list parsed out of a checkpoint's extra-data: as many whole
\* addresses as fit between vanity and seal.
parseSigners(extra) ==
    {extra[AddressLength * i] : i \in 1..(Len(extra) \div AddressLength)}

\* A walk that trusts the canonical header of any number.
trustCheckpoint_Always(dbs, number, headers) == TRUE

\* Whether the walk at `number` with `headers` gathered takes the canonical
\* header of that number as a trusted checkpoint.
trustCheckpoint(dbs, number, headers) ==
    \/ number = 0
    \/ /\ number % Epoch = 0
       /\ \/ Len(headers) > FullImmutabilityThreshold
          \/ GetHeaderByNumber(dbs, Uint64Sub(number, 1)) = {}

WalkFailed(number, hash, parents, headers, dsk) ==
    [err |-> "ErrUnknownAncestor", base |-> "none", baseNumber |-> 0,
     baseHash |-> NoHash, baseSnap |-> NullSnapshot, gathered |-> headers,
     disk |-> dsk, stopNumber |-> number, stopHash |-> hash,
     stopParents |-> parents]

WalkFound(kind, s, number, hash, parents, headers, dsk) ==
    [err |-> "nil", base |-> kind, baseNumber |-> number,
     baseHash |-> hash, baseSnap |-> s, gathered |-> headers,
     disk |-> dsk, stopNumber |-> number, stopHash |-> hash,
     stopParents |-> parents]

\* A gathering step that turns to the database when the tail of the parents
\* is not the header of the walk position.
gatherHeader_DatabaseFallback(dbs, number, hash, parents) ==
    IF parents # <<>>
          /\ Last(parents).Hash = hash /\ Last(parents).Number = number
    THEN {Last(parents)}
    ELSE GetHeader(dbs, hash, number)

\* One round of the gathering step: the header of the walk position, from
\* the tail of the parents while some are left, else from the database.
gatherHeader(dbs, number, hash, parents) ==
    IF parents # <<>>
    THEN IF Last(parents).Hash # hash \/ Last(parents).Number # number
         THEN {} ELSE {Last(parents)}
    ELSE GetHeader(dbs, hash, number)

\* The backward walk of c.snapshot from (number, hash): the base it finds
\* with the headers gathered on the way (newest first), or the failure.
RECURSIVE findBase(_, _, _, _, _, _, _)
findBase(dbs, rec, dsk, number, hash, parents, headers) ==
    IF hash \in DOMAIN rec
    THEN WalkFound("cache", rec[hash], number, hash, parents, headers, dsk)
    ELSE IF number % checkpointInterval = 0 /\ hash \in DOMAIN dsk
    THEN WalkFound("disk", dsk[hash], number, hash, parents, headers, dsk)
    ELSE IF trustCheckpoint(dbs, number, headers)
            /\ GetHeaderByNumber(dbs, number) # {}
    THEN LET checkpoint == CHOOSE h \in GetHeaderByNumber(dbs, number) : TRUE
             s == newSnapshot(number, parseSigners(checkpoint.Extra))
         IN [WalkFound("checkpoint", s, number, hash, parents, headers,
                       (checkpoint.Hash :> s) @@ dsk)
                EXCEPT !.baseHash = checkpoint.Hash]
    ELSE LET got == gatherHeader(dbs, number, hash, parents)
         IN IF got = {}
            THEN WalkFailed(number, hash, parents, headers, dsk)
            ELSE LET header == CHOOSE h \in got : TRUE
                 IN findBase(dbs, rec, dsk, Uint64Sub(number, 1),
                             header.ParentHash,
                             IF parents # <<>> THEN Front(parents) ELSE parents,
                             Append(headers, header))

\* The outcome of a call of c.snapshot as the model records it.
Outcome(b, number, hash, parents, err, s, snapHash) ==
    [set |-> TRUE, number |-> number, hash |-> hash, parents |-> parents,
     err |-> err, snap |-> s, snapHash |-> snapHash, base |-> b.base,
     baseNumber |-> b.baseNumber, baseHash |-> b.baseHash,
     baseSnap |-> b.baseSnap, gathered |-> b.gathered,
     stopNumber |-> b.stopNumber, stopHash |-> b.stopHash,
     stopParents |-> b.stopParents]

\* An end of c.snapshot that saves nothing to the database.
cacheSnapshot_NoStore(b, r, snapHash, rec, number, hash, parents) ==
    IF r.err # "nil"
    THEN [res |-> Outcome(b, number, hash, parents, r.err, NullSnapshot, NoHash),
          recents |-> rec, disk |-> b.disk]
    ELSE [res |-> Outcome(b, number, hash, parents, "nil", r.snap, snapHash),
          recents |-> (snapHash :> r.snap) @@ rec,
          disk |-> b.disk]

\* The end of c.snapshot after the replay r of the gathered headers on the
\* base b: an error of the replay is returned, else the result is put into
\* the memory cache and, on a checkpointInterval boundary with headers
\* replayed, saved to the database.
cacheSnapshot(b, r, snapHash, rec, number, hash, parents) ==
    IF r.err # "nil"
    THEN [res |-> Outcome(b, number, hash, parents, r.err, NullSnapshot, NoHash),
          recents |-> rec, disk |-> b.disk]
    ELSE [res |-> Outcome(b, number, hash, parents, "nil", r.snap, snapHash),
          recents |-> (snapHash :> r.snap) @@ rec,
          disk |-> IF r.snap.Number % checkpointInterval = 0
                      /\ b.gathered # <<>>
                   THEN (snapHash :> r.snap) @@ b.disk
                   ELSE b.disk]

\* A replay of the gathered headers in the order of the walk, newest first.
replaySnapshot_NewestFirst(b, rec, number, hash, parents) ==
    IF b.err # "nil"
    THEN [res |-> Outcome(b, number, hash, parents, b.err, NullSnapshot, NoHash),
          recents |-> rec, disk |-> b.disk]
    ELSE cacheSnapshot(b, applyHeaders(b.baseSnap, b.gathered),
                       IF b.gathered = <<>> THEN b.baseHash
                       ELSE Head(b.gathered).Hash,
                       rec, number, hash, parents)

\* The part of c.snapshot after the walk that ended as b: the gathered
\* headers are put in ascending order and applied on the base.
replaySnapshot(b, rec, number, hash, parents) ==
    IF b.err # "nil"
    THEN [res |-> Outcome(b, number, hash, parents, b.err, NullSnapshot, NoHash),
          recents |-> rec, disk |-> b.disk]
    ELSE cacheSnapshot(b, applyHeaders(b.baseSnap, Reverse(b.gathered)),
                       IF b.gathered = <<>> THEN b.baseHash
                       ELSE Head(b.gathered).Hash,
                       rec, number, hash, parents)

\* c.snapshot: the walk, the replay of the gathered headers on the base,
\* the result cached and saved.
snapshot(dbs, rec, dsk, number, hash, parents) ==
    replaySnapshot(findBase(dbs, rec, dsk, number, hash, parents, <<>>),
                   rec, number, hash, parents)

\* The engine with nothing verified or replayed.
IdleEngine ==
    /\ snap = newSnapshot(0, ChainSigners)
    /\ snapErr = "nil"
    /\ last = NoLast
    /\ pending = NullHeader
    /\ fakeDiff = FALSE
    /\ change = NoChange
    /\ signer = ZeroAddress
    /\ calc = NoCalc
    /\ cleared = 0
    /\ batch = <<>>

engineVars ==
    <<snap, snapErr, last, pending, fakeDiff, change, signer, calc, cleared,
      batch>>

\* The lists of parents a caller may hand over: none, or up to MaxBatch
\* headers, each the child of the one before it.
RECURSIVE Linked(_)
Linked(len) ==
    IF len = 0 THEN {<<>>}
    ELSE LET shorter == Linked(len - 1)
         IN shorter \cup
            {Append(q, h) : q \in {p \in shorter : Len(p) = len - 1},
                            h \in Universe}

ParentLists ==
    {q \in Linked(MaxBatch - 1) :
        \A i \in 1..(Len(q) - 1) :
            /\ q[i + 1].ParentHash = q[i].Hash
            /\ q[i + 1].Number = q[i].Number + 1}

\* The parents handed over with a call for block h: none, a list ending at
\* h's height (h itself or the block of the other branch), or one header of
\* the next height.
ParentsFor(h) ==
    {q \in ParentLists :
        \/ q = <<>>
        \/ Last(q).Number = h.Number
        \/ Len(q) = 1 /\ Last(q).Number = h.Number + 1}

\* A header on top of the canonical block n-1 that an account outside the
\* signers sealed: what a peer may hand over as a parent.  No database
\* holds it.
StrayHeader(n) ==
    [MainHeader(n) EXCEPT !.Hash = <<"stray", n>>, !.Seal = Outsider,
                          !.Difficulty = diffNoTurn]

Strays == {StrayHeader(Epoch), StrayHeader(Epoch + 1)}

\* The calls of c.snapshot the model makes: for a block of the chain with
\* the parents a caller may hand over, or for a stray header handed over
\* as the one parent.
SnapshotCalls ==
    UNION {{<<h, parents>> : parents \in ParentsFor(h)} : h \in Universe}
    \cup {<<h, <<h>>>> : h \in Strays}

InitChain ==
    /\ IdleEngine
    /\ IdleSealing
    /\ db \in Databases
    /\ recents = <<>>
    /\ disk = <<>>
    /\ res = NoRes
    /\ vh = NoBatch
    /\ fin = <<>>

\* A call of c.snapshot for a block of the chain, as Prepare, Finalize, Seal
\* and CalcDifficulty make it (no parents) and as header verification makes
\* it (with the parents of a batch).
Snapshot ==
    /\ Cardinality(DOMAIN recents) < MaxCached
    /\ \E call \in SnapshotCalls :
          \E r \in {snapshot(db, recents, disk, call[1].Number, call[1].Hash,
                              call[2])} :
             /\ res' = r.res
             /\ recents' = r.recents
             /\ disk' = r.disk
    /\ UNCHANGED <<db, vh, fin, engineVars, sealVars, mineVars>>

\* The node restarts: the snapshots in memory are lost.
Restart ==
    /\ recents # <<>>
    /\ recents' = <<>>
    /\ res' = NoRes
    /\ UNCHANGED <<db, disk, vh, fin, engineVars, sealVars, mineVars>>

NextChain == Snapshot \/ Restart

SpecChain == InitChain /\ [][NextChain]_vars

-----------------------------------------------------------------------------
(* Verification against the chain: verifyHeader with its parent lookup and
   its snapshot resolution, and VerifyHeaders, the goroutine that verifies a
   batch and hands the results over a buffered channel until aborted. *)

\* What one verification did besides returning err: whether it looked for
\* the parent header, whether it called c.snapshot, whether it recovered a
\* signature (which fills the signature cache), and the caches it left.
Verdict(err, lookup, resolved, recovered, rec, dsk) ==
    [err |-> err, lookup |-> lookup, resolved |-> resolved,
     recovered |-> recovered, recents |-> rec, disk |-> dsk]

\* The end of verifyCascadingFields, with the outcome r of c.snapshot for
\* the parent: the checkpoint signer list and the seal.  A signature is
\* recovered when headers were replayed and when the seal is looked at.
verifyOnSnapshot(r, header) ==
    Verdict(verifyCascadingFields(r.res.snap, r.res.err, header, FALSE),
            TRUE, TRUE,
            \/ r.res.base # "none" /\ r.res.gathered # <<>>
            \/ /\ r.res.err = "nil"
               /\ ~(/\ header.Number % Epoch = 0
                    /\ header.Extra # signersBytes(signers(r.res.snap))),
            r.recents, r.disk)

\* verifyCascadingFields against the chain: the parent from the tail of the
\* parents or from the database, the checks against the parent, the
\* snapshot of the parent, and the checks on top of that snapshot.
verifyCascadingFieldsChain(dbs, rec, dsk, header, parents) ==
    LET number == header.Number
        parent == IF parents # <<>> THEN {Last(parents)}
                  ELSE GetHeader(dbs, header.ParentHash, Uint64Sub(number, 1))
    IN IF number = 0 THEN Verdict("nil", FALSE, FALSE, FALSE, rec, dsk)
       ELSE IF \A q \in parent : \/ q.Number # Uint64Sub(number, 1)
                                 \/ q.Hash # header.ParentHash
       THEN Verdict("ErrUnknownAncestor", TRUE, FALSE, FALSE, rec, dsk)
       ELSE IF header.Time = "early"
       THEN Verdict("errInvalidTimestamp", TRUE, FALSE, FALSE, rec, dsk)
       ELSE IF header.GasUsed = "over"
       THEN Verdict("invalid gasUsed", TRUE, FALSE, FALSE, rec, dsk)
       ELSE IF header.Fee # "ok"
       THEN Verdict("invalid fee", TRUE, FALSE, FALSE, rec, dsk)
       ELSE verifyOnSnapshot(
                snapshot(dbs, rec, dsk, Uint64Sub(number, 1),
                         header.ParentHash, parents),
                header)

\* A verifyHeader that goes through the cascading checks first.
verifyHeaderChain_CascadeFirst(dbs, rec, dsk, header, parents) ==
    LET v == verifyCascadingFieldsChain(dbs, rec, dsk, header, parents)
    IN IF v.err # "nil" THEN v
       ELSE [v EXCEPT !.err = verifyHeaderFields(header)]

\* verifyHeader against the chain: the standalone checks, then the
\* cascading ones.
verifyHeaderChain(dbs, rec, dsk, header, parents) ==
    IF verifyHeaderFields(header) # "nil"
    THEN Verdict(verifyHeaderFields(header), FALSE, FALSE, FALSE, rec, dsk)
    ELSE verifyCascadingFieldsChain(dbs, rec, dsk, header, parents)

\* The parents of the i-th header of a batch (counted from 0) taken to be
\* none.
batchParents_None(headers, i) == <<>>

\* headers[:i], the parents handed to the verification of the i-th header
\* of a batch (counted from 0).
batchParents(headers, i) == SubSeq(headers, 1, i)

\* Variants of a header of the canonical chain, one field wrong each: the
\* first group fails a standalone check, the second a cascading one.
BadHash(n) == <<"bad", n>>

Malformed(n) ==
    LET good == [MainHeader(n) EXCEPT !.Hash = BadHash(n)]
        checkpoint == n % Epoch = 0
    IN {[good EXCEPT !.Time = "future"],
        [good EXCEPT !.Nonce = nonceOther],
        [good EXCEPT !.Layout = "short"],
        [good EXCEPT !.Layout = "vanity"],
        [good EXCEPT !.MixDigest = "other"],
        [good EXCEPT !.UncleHash = "other"],
        [good EXCEPT !.GasLimit = "over"],
        [good EXCEPT !.ForkHash = "other"]}
       \cup (IF checkpoint
             THEN {[good EXCEPT !.Coinbase = Outsider],
                   [good EXCEPT !.Nonce = nonceAuthVote],
                   [good EXCEPT !.Extra = Tail(good.Extra)]}
             ELSE {[good EXCEPT !.Extra = <<0, Outsider>>]})
       \cup (IF n > 0 THEN {[good EXCEPT !.Difficulty = 3]} ELSE {})

Unacceptable(n) ==
    LET good == [MainHeader(n) EXCEPT !.Hash = BadHash(n)]
    IN {[good EXCEPT !.Time = "early"],
        [good EXCEPT !.GasUsed = "over"],
        [good EXCEPT !.Fee = "bad"],
        [good EXCEPT !.Seal = Outsider],
        [good EXCEPT !.Seal = ZeroAddress],
        [good EXCEPT !.Difficulty = diffNoTurn]}
       \cup (IF n % Epoch = 0
             THEN {[good EXCEPT
                       !.Extra = signersBytes(Reverse(SortAscending(ChainSigners)))]}
             ELSE {})

\* The batches handed to VerifyHeaders: up to MaxBatch headers in a row of
\* the canonical chain or of the side chain, or such a row with one header
\* replaced by a bad variant of it.
MainRow(n, len) == [i \in 1..len |-> MainHeader(n + i - 1)]
SideRow(n, len) ==
    [i \in 1..len |-> IF n + i - 1 < ForkAt THEN MainHeader(n + i - 1)
                                            ELSE ForkHeader(n + i - 1)]

Rows ==
    UNION {{MainRow(n, len) : len \in 1..Min(MaxBatch, ChainTop - n + 1)} :
           n \in 0..ChainTop}
    \cup {SideRow(top - len + 1, len) :
             top \in ForkAt..(ForkAt + 1), len \in 1..MaxBatch}

Batches ==
    Rows \cup
    UNION {UNION {{[q EXCEPT ![i] = bad] :
                      bad \in Malformed(q[i].Number)
                                \cup Unacceptable(q[i].Number)} :
                  i \in DOMAIN q} :
           q \in {r \in Rows : \A j \in DOMAIN r : r[j] \in MainChain}}

InitVerify ==
    /\ IdleEngine
    /\ IdleSealing
    /\ db \in Databases
    /\ recents = <<>>
    /\ disk = <<>>
    /\ res = NoRes
    /\ vh = NoBatch
    /\ fin = <<>>

\* VerifyHeaders: the channels are made and the goroutine started.
VerifyHeaders ==
    /\ vh.phase = "idle"
    /\ \E headers \in Batches :
          vh' = [NoBatch EXCEPT
                    !.headers = headers,
                    !.phase = IF headers = <<>> THEN "done" ELSE "verify"]
    /\ UNCHANGED <<db, recents, disk, res, fin, engineVars, sealVars, mineVars>>

\* What VerifyHeaders keeps of one verification.
TraceEntry(v, i, parents, rec, dsk, aborted) ==
    [index |-> i, parents |-> parents, err |-> v.err, lookup |-> v.lookup,
     resolved |-> v.resolved, recovered |-> v.recovered,
     changed |-> <<v.recents, v.disk>> # <<rec, dsk>>, aborted |-> aborted]

\* The goroutine verifies headers[i] with headers[:i] as its parents.
VerifyOne ==
    /\ vh.phase = "verify"
    /\ \E v \in {verifyHeaderChain(db, recents, disk, vh.headers[vh.i + 1],
                                   batchParents(vh.headers, vh.i))} :
          /\ recents' = v.recents
          /\ disk' = v.disk
          /\ vh' = [vh EXCEPT
                       !.phase = "select",
                       !.err = v.err,
                       !.trace = Append(@,
                           TraceEntry(v, vh.i,
                                      batchParents(vh.headers, vh.i),
                                      recents, disk, vh.aborted))]
    /\ UNCHANGED <<db, res, fin, engineVars, sealVars, mineVars>>

\* A results channel with no buffer and no reader: a send is never ready.
canSend_Unbuffered(results, headers) == FALSE

\* results := make(chan error, len(headers)): with nobody reading, a send
\* is ready while the channel holds fewer than len(headers) results.
canSend(results, headers) == Len(results) < Len(headers)

\* The select of the goroutine takes the send on results: the channel has
\* room for every result, so the send is ready whether or not abort is
\* closed.
SendResult ==
    /\ vh.phase = "select"
    /\ canSend(vh.results, vh.headers)
    /\ vh' = [vh EXCEPT
                 !.results = Append(@, vh.err),
                 !.i = @ + 1,
                 !.phase = IF vh.i + 1 = Len(vh.headers)
                           THEN "done" ELSE "verify"]
    /\ UNCHANGED <<db, recents, disk, res, fin, engineVars, sealVars, mineVars>>

\* The select of the goroutine takes the receive on the closed abort
\* channel: the goroutine returns.
ReceiveAbort ==
    /\ vh.phase = "select"
    /\ vh.aborted
    /\ vh' = [vh EXCEPT !.phase = "done"]
    /\ UNCHANGED <<db, recents, disk, res, fin, engineVars, sealVars, mineVars>>

\* The caller closes the abort channel while the goroutine is at headers[i].
Abort ==
    /\ vh.phase \in {"verify", "select"}
    /\ ~vh.aborted
    /\ vh' = [vh EXCEPT !.aborted = TRUE, !.abortAt = vh.i]
    /\ UNCHANGED <<db, recents, disk, res, fin, engineVars, sealVars, mineVars>>

NextVerify == VerifyHeaders \/ VerifyOne \/ SendResult \/ ReceiveAbort \/ Abort

SpecVerify == InitVerify /\ [][NextVerify]_vars

\* The goroutine is scheduled and verifyHeader returns: a verification that
\* was started ends (VerifyOne is enabled exactly while the phase is
\* "verify", and it leaves that phase), and the select takes a case that is
\* ready.
SpecVerifyLive ==
    /\ InitVerify
    /\ [][NextVerify]_vars
    /\ []<>(vh.phase # "verify")
    /\ WF_vars(SendResult \/ ReceiveAbort)

-----------------------------------------------------------------------------
(* Finalize: the reward for the sealer of the parent block and, every
   ScanBlocks blocks, the scan of the blocks below the node's current head
   that counts who sealed them and reports one signer who sealed none. *)

\* The 64 of the activity scan (its cadence and its window), scaled to 2.
ScanBlocks == 2

\* The values of Config.Poa2PosBlock, the block of the transition, that the
\* model runs with: one below the checkpoint and one above it.
Poa2PosBlocks == {Epoch - 1, Epoch + 1}

\* The configurations of a chain: the transition block, whether rewards are
\* under external authority (IsImplAuth), and whether the calls of the
\* Bridge succeed.
Configs ==
    [poa2pos : Poa2PosBlocks, implAuth : BOOLEAN, bridge : {"ok", "fails"}]

IsPoa2Pos(cfg, number) == number >= cfg.poa2pos

\* ChainSpanner.CommitAccum: the error of packing or applying the system
\* message, nil when the Bridge works.
CommitAccum(cfg, addresses) == IF cfg.bridge = "ok" THEN "nil" ELSE "error"

\* The loop over the blocks start..end-1 of the canonical chain: who sealed
\* them, up to the first block the database does not hold, on whose nil
\* header the loop panics.
ScanWindow(dbs, start, end) ==
    LET missing == {n \in start..(end - 1) : GetHeaderByNumber(dbs, n) = {}}
        stop == IF missing = {} THEN end
                ELSE CHOOSE n \in missing : \A o \in missing : n <= o
    IN [panic |-> missing # {},
        sealers |-> {ecrecover(CHOOSE h \in GetHeaderByNumber(dbs, n) : TRUE).signer :
                        n \in start..(stop - 1)}]

\* What one execution of Finalize did: where it ended ("reward": the panic
\* on the nil parent snapshot, before any credit; "scan": a panic in the
\* scan; "done"), the balance credits (each of BlockReward, to rewardAddress:
\* the reward unless IsImplAuth, and one more on the block before the
\* transition block, where the contract code is installed), the addresses
\* passed to CommitAccum with the error it returned, and the error the
\* caller of FinalizeAndAssemble gets, which is always nil.
Finalized(header, head, cfg, stage, reward, recorded, actives, commit) ==
    [header |-> header.Hash, number |-> header.Number, head |-> head.Hash,
     cfg |-> cfg, panic |-> stage # "done",
     reward |-> reward, recorded |-> recorded,
     credits |-> IF stage = "reward" THEN <<>>
                 ELSE (IF cfg.implAuth THEN <<>>
                       ELSE <<[to |-> reward, amount |-> "BlockReward"]>>)
                      \o (IF header.Number + 1 = cfg.poa2pos
                          THEN <<[to |-> reward, amount |-> "BlockReward"]>>
                          ELSE <<>>),
     install |-> stage # "reward" /\ header.Number + 1 = cfg.poa2pos,
     actives |-> actives,
     commit |-> commit,
     commitErr |-> IF commit = {} THEN "nil" ELSE CommitAccum(cfg, commit),
     returned |-> "nil"]

\* The end of the scan with the window w scanned on the snapshot r2 of the
\* current head: every sealer of the window is flagged in the SignerActives
\* of that snapshot, the one c.snapshot returned and keeps in memory, and
\* the first signer of the range over signStatus with no block in the
\* window is passed to CommitAccum, whose error is not looked at; the order
\* of that range is the order of a Go map, so any such signer may be the
\* first.
finalizeReport(r2, w, header, head, cfg, reward, recorded) ==
    LET flagged ==
            [r2.recents EXCEPT ![r2.res.snapHash].SignerActives = @ \cup w.sealers]
        actives == r2.res.snap.SignerActives
    IN IF w.panic
       THEN {[out |-> Finalized(header, head, cfg, "scan", reward, recorded,
                                actives, {}),
              recents |-> flagged, disk |-> r2.disk]}
       ELSE IF r2.res.snap.Signers \subseteq w.sealers
       THEN {[out |-> Finalized(header, head, cfg, "done", reward, recorded,
                                actives, {}),
              recents |-> flagged, disk |-> r2.disk]}
       ELSE {[out |-> Finalized(header, head, cfg, "done", reward, recorded,
                                actives, {s}),
              recents |-> flagged, disk |-> r2.disk] :
                s \in r2.res.snap.Signers \ w.sealers}

\* The scan, with the outcome r2 of c.snapshot for the current head; a
\* failed call leaves a nil snapshot, on which snap.signers() panics.
finalizeScan(r2, dbs, header, head, cfg, reward, recorded) ==
    IF r2.res.err # "nil"
    THEN {[out |-> Finalized(header, head, cfg, "scan", reward, recorded, {}, {}),
           recents |-> r2.recents, disk |-> r2.disk]}
    ELSE finalizeReport(r2,
                        ScanWindow(dbs,
                                   IF ScanBlocks > head.Number THEN 1
                                   ELSE head.Number - ScanBlocks,
                                   head.Number),
                        header, head, cfg, reward, recorded)

\* The condition of the scan: past the transition, on a multiple of
\* ScanBlocks above ScanBlocks.
scanDue(cfg, number) ==
    IsPoa2Pos(cfg, number) /\ number % ScanBlocks = 0 /\ number > ScanBlocks

\* The reward, with the outcome r1 of c.snapshot for the parent block (a
\* failed call leaves a nil snapshot, on which snap.Recents panics), then
\* the scan when the block number asks for it.  An account that Recents
\* does not record reads as the zero address.
finalizeReward(r1, dbs, header, head, cfg) ==
    LET number == header.Number
        recorded == Uint64Sub(number, 1) \in DOMAIN r1.res.snap.Recents
        reward == IF recorded
                  THEN r1.res.snap.Recents[Uint64Sub(number, 1)]
                  ELSE ZeroAddress
    IN IF r1.res.err # "nil"
       THEN {[out |-> Finalized(header, head, cfg, "reward", ZeroAddress,
                                FALSE, {}, {}),
              recents |-> r1.recents, disk |-> r1.disk]}
       ELSE IF scanDue(cfg, number)
       THEN finalizeScan(snapshot(dbs, r1.recents, r1.disk, head.Number,
                                  head.Hash, <<>>),
                         dbs, header, head, cfg, reward, recorded)
       ELSE {[out |-> Finalized(header, head, cfg, "done", reward, recorded,
                                {}, {}),
              recents |-> r1.recents, disk |-> r1.disk]}

\* Finalize of `header` on a node whose chain.CurrentHeader() is `head`:
\* the executions it may make.
finalize(dbs, rec, dsk, header, head, cfg) ==
    finalizeReward(snapshot(dbs, rec, dsk, Uint64Sub(header.Number, 1),
                            header.ParentHash, <<>>),
                   dbs, header, head, cfg)

InitFinalize ==
    /\ IdleEngine
    /\ IdleSealing
    /\ db \in Databases
    /\ recents = <<>>
    /\ disk = <<>>
    /\ res = NoRes
    /\ vh = NoBatch
    /\ fin = <<>>

\* CalcDifficulty resolves the snapshot of a block of the database before
\* anything is finalized: c.snapshot(chain, parent.Number, parent.Hash(), nil).
ResolveParent ==
    /\ recents = <<>>
    /\ fin = <<>>
    /\ \E parent \in db :
          \E r \in {snapshot(db, recents, disk, parent.Number, parent.Hash, <<>>)} :
             /\ res' = r.res
             /\ recents' = r.recents
             /\ disk' = r.disk
    /\ UNCHANGED <<db, vh, fin, engineVars, sealVars, mineVars>>

\* Finalize is executed on a header, and once more on the same header over
\* the same database, the current head and the order of the map free.
Finalize ==
    /\ Len(fin) < 2
    /\ \E header \in Universe, head \in {h \in db : h.Hash[1] = "main"},
          cfg \in Configs :
          /\ header.Number > 0
          /\ fin # <<>> => header.Hash = fin[1].header /\ cfg = fin[1].cfg
          /\ \E o \in finalize(db, recents, disk, header, head, cfg) :
                /\ fin' = Append(fin, o.out)
                /\ recents' = o.recents
                /\ disk' = o.disk
    /\ UNCHANGED <<db, res, vh, engineVars, sealVars, mineVars>>

NextFinalize == ResolveParent \/ Finalize

SpecFinalize == InitFinalize /\ [][NextFinalize]_vars

-----------------------------------------------------------------------------
(* The local signer and its lock: Authorize, Prepare, Seal, CalcDifficulty *)

\* A lock that is granted at once.
canLock_Always(m) == TRUE

\* sync.RWMutex: Lock is granted when nobody holds the lock.
canLock(m) == m.readers = 0 /\ m.writer = 0

\* sync.RWMutex: RLock is granted while no writer holds the lock or waits
\* for it.
canRLock(m) == m.writer = 0 /\ m.waiting = {}

\* The read locks held at a time in the model: one per caller, and one
\* that was never released.
MaxHeld == NumCallers + 1

\* What Prepare sets in the header.
PreparedFields == {"difficulty", "extra", "time"}

\* Prepare up to c.lock.RLock(): the snapshot of the parent block, whose
\* error is returned, then the request of the read lock.  What the Bridge
\* will answer is an input of the call, as is the configuration.
prepareEnter(r, header, cfg, dbs) ==
    IF r.res.err # "nil"
    THEN [IdleCaller EXCEPT !.op = "Prepare", !.pc = "returned",
                            !.number = header.Number, !.err = r.res.err]
    ELSE [IdleCaller EXCEPT !.op = "Prepare", !.pc = "RLock",
                            !.number = header.Number,
                            !.parent = GetHeader(dbs, header.ParentHash,
                                                 Uint64Sub(header.Number, 1)) # {},
                            !.snap = r.res.snap,
                            !.bridge = IF header.Number % Epoch # 0
                                          /\ IsPoa2Pos(cfg, header.Number)
                                       THEN cfg.bridge ELSE "unused"]

\* Prepare under the read lock, before the votes: off a checkpoint and past
\* the transition it asks the Bridge for the validators, and returns
\* errUnknownValidators when the call fails.  This return has no RUnlock
\* before it.
prepareValidators(c) ==
    IF c.bridge = "fails"
    THEN [c EXCEPT !.pc = "returned", !.err = "errUnknownValidators"]
    ELSE [c EXCEPT !.pc = "signer"]

\* Prepare after RUnlock: the difficulty, the extra-data, the mix digest,
\* then the timestamp from the parent header, without which
\* ErrUnknownAncestor is returned.
prepareFinish(c) ==
    IF calcDifficulty(c.snap, c.signer).panic
    THEN [c EXCEPT !.pc = "returned", !.err = "panic"]
    ELSE IF ~c.parent
    THEN [c EXCEPT !.pc = "returned", !.err = "ErrUnknownAncestor",
                   !.prepared = {"difficulty", "extra"}]
    ELSE [c EXCEPT !.pc = "returned", !.prepared = PreparedFields]

lockFrame ==
    <<snap, snapErr, last, pending, fakeDiff, change, calc, cleared, batch,
      db, res, vh, fin, seal,
      mineVars>>

InitLock ==
    /\ IdleEngine
    /\ IdleSealing
    /\ db \in Databases
    /\ recents = <<>>
    /\ disk = <<>>
    /\ res = NoRes
    /\ vh = NoBatch
    /\ fin = <<>>

\* A caller enters Authorize and asks for the write lock.
CallAuthorize(t) ==
    /\ th[t].pc = "idle"
    /\ \E a \in 1..NumAccounts :
          th' = [th EXCEPT ![t] = [IdleCaller EXCEPT !.op = "Authorize",
                                                     !.pc = "Lock", !.arg = a]]
    /\ mu' = [mu EXCEPT !.waiting = @ \cup {t}]
    /\ UNCHANGED <<signer, signFn, recents, disk, lockFrame>>

\* c.lock.Lock() returns.
Lock(t) ==
    /\ th[t].pc = "Lock"
    /\ canLock(mu)
    /\ mu' = [mu EXCEPT !.writer = t, !.waiting = @ \ {t}]
    /\ th' = [th EXCEPT ![t].pc = "c.signer"]
    /\ UNCHANGED <<signer, signFn, recents, disk, lockFrame>>

\* c.signer = signer
WriteSigner(t) ==
    /\ th[t].pc = "c.signer"
    /\ signer' = th[t].arg
    /\ th' = [th EXCEPT ![t].pc = "c.signFn"]
    /\ UNCHANGED <<signFn, mu, recents, disk, lockFrame>>

\* c.signFn = signFn
WriteSignFn(t) ==
    /\ th[t].pc = "c.signFn"
    /\ signFn' = th[t].arg
    /\ th' = [th EXCEPT ![t].pc = "Unlock"]
    /\ UNCHANGED <<signer, mu, recents, disk, lockFrame>>

\* The deferred c.lock.Unlock(), and Authorize returns.
Unlock(t) ==
    /\ th[t].pc = "Unlock"
    /\ mu' = [mu EXCEPT !.writer = 0]
    /\ th' = [th EXCEPT ![t].pc = "returned"]
    /\ UNCHANGED <<signer, signFn, recents, disk, lockFrame>>

\* A caller enters Seal or CalcDifficulty, at the point where they ask for
\* the read lock.
CallReader(t) ==
    /\ th[t].pc = "idle"
    /\ \E op \in {"Seal", "CalcDifficulty"} :
          th' = [th EXCEPT ![t] = [IdleCaller EXCEPT !.op = op, !.pc = "RLock"]]
    /\ UNCHANGED <<signer, signFn, mu, recents, disk, lockFrame>>

\* A caller enters Prepare.
CallPrepare(t) ==
    /\ th[t].pc = "idle"
    /\ Cardinality(DOMAIN recents) < MaxCached
    /\ \E header \in Universe, cfg \in Configs :
          /\ header.Number > 0
          /\ \E r \in {snapshot(db, recents, disk, Uint64Sub(header.Number, 1),
                                 header.ParentHash, <<>>)} :
                /\ th' = [th EXCEPT ![t] = prepareEnter(r, header, cfg, db)]
                /\ recents' = r.recents
                /\ disk' = r.disk
    /\ UNCHANGED <<signer, signFn, mu, lockFrame>>

\* c.lock.RLock() returns.
RLock(t) ==
    /\ th[t].pc = "RLock"
    /\ canRLock(mu)
    /\ mu.readers < MaxHeld
    /\ mu' = [mu EXCEPT !.readers = @ + 1]
    /\ th' = [th EXCEPT ![t].pc = IF th[t].op = "Prepare" THEN "validators"
                                   ELSE "signer"]
    /\ UNCHANGED <<signer, signFn, recents, disk, lockFrame>>

\* Prepare asks the Bridge for the validators and gathers the proposals.
PrepareValidators(t) ==
    /\ th[t].pc = "validators"
    /\ th' = [th EXCEPT ![t] = prepareValidators(th[t])]
    /\ UNCHANGED <<signer, signFn, mu, recents, disk, lockFrame>>

\* The read of c.signer.
ReadSigner(t) ==
    /\ th[t].pc = "signer"
    /\ th' = [th EXCEPT ![t].signer = signer,
                         ![t].pc = IF th[t].op = "Seal" THEN "signFn"
                                   ELSE "RUnlock"]
    /\ UNCHANGED <<signer, signFn, mu, recents, disk, lockFrame>>

\* The read of c.signFn, in Seal.
ReadSignFn(t) ==
    /\ th[t].pc = "signFn"
    /\ th' = [th EXCEPT ![t].signFn = signFn, ![t].pc = "RUnlock"]
    /\ UNCHANGED <<signer, signFn, mu, recents, disk, lockFrame>>

\* c.lock.RUnlock(); Seal and CalcDifficulty go on with what they read,
\* Prepare with the rest of the header.
RUnlock(t) ==
    /\ th[t].pc = "RUnlock"
    /\ mu' = [mu EXCEPT !.readers = @ - 1]
    /\ th' = [th EXCEPT ![t] = IF th[t].op = "Prepare" THEN prepareFinish(th[t])
                                ELSE [th[t] EXCEPT !.pc = "returned"]]
    /\ UNCHANGED <<signer, signFn, recents, disk, lockFrame>>

\* The caller is free for another call.
Return(t) ==
    /\ th[t].pc = "returned"
    /\ th' = [th EXCEPT ![t] = IdleCaller]
    /\ UNCHANGED <<signer, signFn, mu, recents, disk, lockFrame>>

NextLock ==
    \E t \in Callers :
        \/ CallAuthorize(t) \/ Lock(t) \/ WriteSigner(t) \/ WriteSignFn(t)
        \/ Unlock(t) \/ CallReader(t) \/ CallPrepare(t) \/ RLock(t)
        \/ PrepareValidators(t) \/ ReadSigner(t) \/ ReadSignFn(t)
        \/ RUnlock(t) \/ Return(t)

SpecLock == InitLock /\ [][NextLock]_vars

-----------------------------------------------------------------------------
(* Seal and the goroutine that waits for the slot *)

\* Seal with no look at the signers or at the recent signers.
sealPermitted_Anyone(s, number, addr) == "nil"

\* Seal that refuses a signer outside the set and never a recent one.
sealPermitted_NoRecents(s, number, addr) ==
    IF addr \notin s.Signers THEN "errUnauthorizedSigner" ELSE "nil"

\* Seal, the checks against the snapshot s of the parent block: the local
\* signer is a signer, and is not among the recent signers unless the block
\* shifts it out.
sealPermitted(s, number, addr) ==
    IF addr \notin s.Signers THEN "errUnauthorizedSigner"
    ELSE IF \E seen \in DOMAIN s.Recents :
               /\ s.Recents[seen] = addr
               /\ \/ number < RecentLimit(Cardinality(s.Signers))
                  \/ seen > Uint64Sub(number, RecentLimit(Cardinality(s.Signers)))
    THEN "signed recently, must wait for others"
    ELSE "nil"

\* Seal before the snapshot: the genesis block and, on a chain with period
\* 0, a block with no transactions are refused.
sealRefused(number, period, txs) ==
    IF number = 0 THEN "errUnknownBlock"
    ELSE IF period = 0 /\ txs = 0
    THEN "sealing paused while waiting for transactions"
    ELSE "nil"

\* The call of Seal that returns the error err: the goroutine is started
\* only when there is none, after every return of an error.  The stop
\* channel of the call is open.
sealed(old, header, txs, addr, r, err) ==
    [called |-> TRUE, period |-> old.period, number |-> header.Number,
     txs |-> txs, signer |-> addr,
     snapErr |-> r.res.err, snap |-> r.res.snap, err |-> err,
     task |-> IF err = "nil" THEN "waiting" ELSE "none",
     stop |-> FALSE, stopFirst |-> FALSE, ready |-> old.ready,
     sent |-> 0, dropped |-> 0,
     difficulty |-> header.Difficulty, time |-> 0, at |-> 0, delay |-> 0]

\* The goroutine in its first select may take the case of the timer: the
\* timer is made on entry of the select, and a stop channel that is closed
\* by then, or that is closed before the timer fires, wins.
mayElapse_DespiteStop(s) == s.task = "waiting"

\* A timer that is due as soon as it is made.
timerDue_AtOnce(s, now) == TRUE

\* time.After(delay), made when the clock showed s.at: the channel is ready
\* once the delay has passed, at once when the delay is not positive.
timerDue(s, now) == now >= s.at + s.delay

mayElapse(s) == s.task = "waiting" /\ ~s.stop /\ timerDue(s, clock)

\* The second select: the block is sent when a receiver is ready, and is
\* dropped otherwise; the goroutine returns in both cases.
publish(s) ==
    IF s.ready
    THEN [s EXCEPT !.task = "done", !.sent = @ + 1, !.ready = FALSE]
    ELSE [s EXCEPT !.task = "done", !.dropped = @ + 1]

sealFrame ==
    <<snap, snapErr, last, pending, fakeDiff, change, calc, cleared, batch,
      db, res, vh, fin, mu, th,
      mineVars>>

InitSeal ==
    /\ IdleEngine
    /\ signFn = ZeroAddress
    /\ mu = NoLock
    /\ th = [t \in Callers |-> IdleCaller]
    /\ \E period \in {0, 1} : seal = [NoSeal EXCEPT !.period = period]
    /\ IdleMiner
    /\ db \in Databases
    /\ recents = <<>>
    /\ disk = <<>>
    /\ res = NoRes
    /\ vh = NoBatch
    /\ fin = <<>>

\* Seal of a block, once the goroutine of the call before it is gone.  The
\* clock is not read here: the delay is left at 0 and the timer fires at
\* some point (DelayElapses); SealPrepared is Seal with the clock.
Seal ==
    /\ seal.task \in {"none", "stopped", "done"}
    /\ Cardinality(DOMAIN recents) < MaxCached
    /\ \E header \in Universe \cup {MainHeader(0)}, txs \in {0, 1},
          signErr \in {"nil", "locked"} :
          IF sealRefused(header.Number, seal.period, txs) # "nil"
          THEN /\ seal' = sealed(seal, header, txs, signer,
                                 [res |-> [err |-> "none", snap |-> NullSnapshot]],
                                 sealRefused(header.Number, seal.period, txs))
               /\ UNCHANGED <<recents, disk>>
          ELSE \E r \in {snapshot(db, recents, disk, Uint64Sub(header.Number, 1),
                                   header.ParentHash, <<>>)} :
                 /\ recents' = r.recents
                 /\ disk' = r.disk
                 /\ seal' = sealed(seal, header, txs, signer, r,
                                   IF r.res.err # "nil" THEN r.res.err
                                   ELSE IF sealPermitted(r.res.snap, header.Number,
                                                         signer) # "nil"
                                   THEN sealPermitted(r.res.snap, header.Number,
                                                      signer)
                                   ELSE signErr)
    /\ UNCHANGED <<signer, signFn, sealFrame>>

\* The caller of Seal closes the stop channel.
StopFires ==
    /\ seal.called
    /\ ~seal.stop
    /\ seal' = [seal EXCEPT !.stop = TRUE,
                            !.stopFirst = seal.task \in {"none", "waiting"}]
    /\ UNCHANGED <<signer, signFn, recents, disk, sealFrame>>

\* case <-stop: the goroutine returns.
TaskStops ==
    /\ seal.task = "waiting"
    /\ seal.stop
    /\ seal' = [seal EXCEPT !.task = "stopped"]
    /\ UNCHANGED <<signer, signFn, recents, disk, sealFrame>>

\* case <-time.After(delay)
DelayElapses ==
    /\ mayElapse(seal)
    /\ seal' = [seal EXCEPT !.task = "publishing"]
    /\ UNCHANGED <<signer, signFn, recents, disk, sealFrame>>

\* The select with results <- block.WithSeal(header) and a default case.
Publish ==
    /\ seal.task = "publishing"
    /\ seal' = publish(seal)
    /\ UNCHANGED <<signer, signFn, recents, disk, sealFrame>>

\* The reader of the results channel comes to wait on it, or goes away.
Receiver ==
    /\ seal' = [seal EXCEPT !.ready = ~@]
    /\ UNCHANGED <<signer, signFn, recents, disk, sealFrame>>

NextSeal ==
    Authorize \/ Seal \/ StopFires \/ TaskStops \/ DelayElapses \/ Publish
    \/ Receiver

SpecSeal == InitSeal /\ [][NextSeal]_vars

\* The goroutine is scheduled, and a timer fires.
SpecSealLive ==
    /\ InitSeal
    /\ [][NextSeal]_vars
    /\ WF_vars(TaskStops)
    /\ WF_vars(DelayElapses)
    /\ WF_vars(Publish)

-----------------------------------------------------------------------------
(* Block production: Prepare fills in the consensus fields of a header, Seal
   signs the header and its goroutine waits for the slot of the block.  The
   clock counts units of wiggleTime, and a second is taken to be one unit. *)

extraVanity == 32
extraSeal == 65

\* The 500 ms of wiggleTime: the unit of the clock.
wiggleTime == 1

\* The clock of the model stops here.
MaxClock == 4

\* The calls of Prepare in a run.
MaxPrepares == 1

\* The lengths of the extra-data of the header handed to Prepare: none,
\* a short vanity, the vanity, and more than vanity and seal.
ExtraLengths == {0, extraVanity - 1, extraVanity, extraVanity + extraSeal + 1}

\* The contents of Clique.proposals, one entry per address: nothing, a
\* valid vote to add, a valid vote to drop, votes that make no sense on
\* the signers of the chain, and two valid votes.
ProposalSets ==
    {{},
     {[address |-> Outsider, authorize |-> TRUE]},
     {[address |-> 1, authorize |-> FALSE]},
     {[address |-> Outsider, authorize |-> FALSE],
      [address |-> 1, authorize |-> TRUE]},
     {[address |-> Outsider, authorize |-> TRUE],
      [address |-> 2, authorize |-> FALSE]}}

\* Prepare that casts a vote on any proposal, valid or not.
prepareVotes_Unfiltered(s, number, props) ==
    IF number % Epoch = 0 \/ props = {}
    THEN {[Coinbase |-> ZeroAddress, Nonce |-> nonceDropVote]}
    ELSE {[Coinbase |-> p.address,
           Nonce |-> IF p.authorize THEN nonceAuthVote ELSE nonceDropVote] :
             p \in props}

\* Prepare, the beneficiary and the nonce: both zeroed (the zero nonce is
\* the nonce of a drop vote), and off a checkpoint one of the proposals that
\* are valid on the snapshot, picked at random, with its nonce.
prepareVotes(s, number, props) ==
    LET addresses == {p \in props : validVote(s, p.address, p.authorize)}
    IN IF number % Epoch = 0 \/ addresses = {}
       THEN {[Coinbase |-> ZeroAddress, Nonce |-> nonceDropVote]}
       ELSE {[Coinbase |-> p.address,
              Nonce |-> IF p.authorize THEN nonceAuthVote ELSE nonceDropVote] :
                p \in addresses}

\* Prepare, the extra-data: the vanity padded to extraVanity bytes and cut
\* there, the signers of the snapshot on a checkpoint, and extraSeal bytes.
\* length is the number of bytes, list what follows the vanity.
prepareExtra(length, s, number) ==
    LET padded == IF length < extraVanity
                  THEN length + (extraVanity - length) ELSE length
        vanity == Min(padded, extraVanity)
        list == IF number % Epoch = 0 THEN signersBytes(signers(s)) ELSE <<>>
    IN [length |-> vanity + Len(list) + extraSeal, list |-> list]

\* What the validator sees of an extra-data of that many bytes.
extraLayout(length) ==
    IF length < extraVanity THEN "short"
    ELSE IF length < extraVanity + extraSeal THEN "vanity"
    ELSE "full"

\* Prepare that stamps the header with the time of its parent.
prepareTime_OfParent(parentTime, period, now) == parentTime

\* Prepare, the timestamp: the parent's plus the period, or now when that
\* is in the past.
prepareTime(parentTime, period, now) ==
    IF parentTime + period < now THEN now ELSE parentTime + period

\* A call of Prepare that returned err with the header as it left it.
Prepared(err, header, s, addr, period, parentTime, time, length) ==
    [set |-> TRUE, calls |-> 0, err |-> err, header |-> header, snap |-> s,
     signer |-> addr, period |-> period, parentTime |-> parentTime,
     time |-> time, length |-> length]

\* Prepare of the header `input` whose extra-data has `length` bytes, with
\* the outcome r of c.snapshot for the parent block and the vote picked:
\* the returns on the error of the snapshot, on the failure of the Bridge
\* (off a checkpoint and past the transition), the panic of calcDifficulty
\* with no signer, the return on a parent the database does not hold, and
\* the header with every field set.  Time of the header tells how the
\* timestamp stands to the parent's: "early" when it is less than the
\* parent's plus the period.
prepare(r, input, length, cfg, vote, addr, period, parent, parentTime, now) ==
    LET number == input.Number
        s == r.res.snap
        zeroed == [input EXCEPT !.Coinbase = ZeroAddress,
                                !.Nonce = nonceDropVote]
        voted == [input EXCEPT !.Coinbase = vote.Coinbase,
                               !.Nonce = vote.Nonce]
        extra == prepareExtra(length, s, number)
        filled == [voted EXCEPT
                      !.Difficulty = calcDifficulty(s, addr).diff,
                      !.Extra = extra.list,
                      !.Layout = extraLayout(extra.length),
                      !.MixDigest = "zero"]
        time == prepareTime(parentTime, period, now)
    IN IF r.res.err # "nil"
       THEN Prepared(r.res.err, zeroed, NullSnapshot, addr, period, 0, 0, length)
       ELSE IF number % Epoch # 0 /\ IsPoa2Pos(cfg, number)
               /\ cfg.bridge = "fails"
       THEN Prepared("errUnknownValidators", zeroed, s, addr, period, 0, 0,
                     length)
       ELSE IF calcDifficulty(s, addr).panic
       THEN Prepared("panic", voted, s, addr, period, 0, 0, length)
       ELSE IF ~parent
       THEN Prepared("ErrUnknownAncestor", filled, s, addr, period, 0, 0,
                     extra.length)
       ELSE Prepared("nil",
                     [filled EXCEPT !.Time = IF parentTime + period > time
                                             THEN "early" ELSE "ok"],
                     s, addr, period, parentTime, time, extra.length)

\* Seal, the delay of the goroutine: the time left to the timestamp of the
\* header, plus, for a header with the difficulty of a block out of turn,
\* rand.Int63n(wiggle) with wiggle = (len(snap.Signers)/2+1) * wiggleTime.
sealDelays_AlwaysWiggle(s, difficulty, time, now) ==
    {(time - now) + rand :
        rand \in 0..(RecentLimit(Cardinality(s.Signers)) * wiggleTime - 1)}

sealDelays(s, difficulty, time, now) ==
    IF difficulty = diffNoTurn
    THEN {(time - now) + rand :
             rand \in 0..(RecentLimit(Cardinality(s.Signers)) * wiggleTime - 1)}
    ELSE {time - now}

InitPrepare ==
    /\ IdleEngine
    /\ signFn = ZeroAddress
    /\ mu = NoLock
    /\ th = [t \in Callers |-> IdleCaller]
    /\ \E period \in {0, 1} : seal = [NoSeal EXCEPT !.period = period]
    /\ proposals \in ProposalSets
    /\ prep = NoPrep
    /\ clock = 1
    /\ db \in Databases
    /\ recents = <<>>
    /\ disk = <<>>
    /\ res = NoRes
    /\ vh = NoBatch
    /\ fin = <<>>

\* Prepare of a header on top of a block, by the local signer as it is now.
\* The parent, when the database holds it, is not from the future.
Prepare ==
    /\ prep.calls < MaxPrepares
    /\ \E input \in Universe, length \in ExtraLengths, cfg \in Configs,
          parentTime \in {clock - 1, clock} :
          /\ input.Number > 0
          /\ \E r \in {snapshot(db, recents, disk,
                                Uint64Sub(input.Number, 1),
                                input.ParentHash, <<>>)} :
                /\ recents' = r.recents
                /\ disk' = r.disk
                /\ \E vote \in prepareVotes(r.res.snap, input.Number, proposals) :
                      prep' = [prepare(r, input, length, cfg, vote, signer,
                                       seal.period,
                                       GetHeader(db, input.ParentHash,
                                                 Uint64Sub(input.Number, 1)) # {},
                                       parentTime, clock)
                                 EXCEPT !.calls = prep.calls + 1]
    /\ UNCHANGED <<signer, signFn, seal, proposals, clock, snap, snapErr, last,
                   pending, fakeDiff, change, calc, cleared, batch, db, res,
                   vh, fin, mu, th>>

NextPrepare == Authorize \/ Prepare

SpecPrepare == InitPrepare /\ [][NextPrepare]_vars

\* A node with the whole canonical chain and no proposal, on a chain with
\* period 1.
InitMine ==
    /\ IdleEngine
    /\ signFn = ZeroAddress
    /\ mu = NoLock
    /\ th = [t \in Callers |-> IdleCaller]
    /\ seal = [NoSeal EXCEPT !.period = 1]
    /\ proposals = {}
    /\ prep = NoPrep
    /\ clock = 1
    /\ db = MainChain
    /\ recents = <<>>
    /\ disk = <<>>
    /\ res = NoRes
    /\ vh = NoBatch
    /\ fin = <<>>

\* Seal of the header Prepare filled in, a block with transactions, by the
\* local signer as it is now: Seal with the clock.  It starts the goroutine
\* when it returns nil.
SealPrepared ==
    /\ prep.set /\ prep.err = "nil"
    /\ seal.task \in {"none", "stopped", "done"}
    /\ \E txs \in {1}, signErr \in {"nil", "locked"} :
          IF sealRefused(prep.header.Number, seal.period, txs) # "nil"
          THEN /\ seal' = sealed(seal, prep.header, txs, signer,
                                 [res |-> [err |-> "none", snap |-> NullSnapshot]],
                                 sealRefused(prep.header.Number, seal.period, txs))
               /\ UNCHANGED <<recents, disk>>
          ELSE \E r \in {snapshot(db, recents, disk,
                                   Uint64Sub(prep.header.Number, 1),
                                   prep.header.ParentHash, <<>>)} :
                 /\ recents' = r.recents
                 /\ disk' = r.disk
                 /\ \E delay \in IF r.res.err # "nil" THEN {0}
                                 ELSE sealDelays(r.res.snap,
                                                 prep.header.Difficulty,
                                                 prep.time, clock) :
                       seal' = [sealed(seal, prep.header, txs, signer, r,
                                       IF r.res.err # "nil" THEN r.res.err
                                       ELSE IF sealPermitted(r.res.snap,
                                                             prep.header.Number,
                                                             signer) # "nil"
                                       THEN sealPermitted(r.res.snap,
                                                          prep.header.Number,
                                                          signer)
                                       ELSE signErr)
                                  EXCEPT !.time = prep.time, !.at = clock,
                                         !.delay = delay]
    /\ UNCHANGED <<signer, signFn, proposals, prep, clock, snap, snapErr, last,
                   pending, fakeDiff, change, calc, cleared, batch, db, res,
                   vh, fin, mu, th>>

\* Time passes.
Tick ==
    /\ clock < MaxClock
    /\ clock' = clock + 1
    /\ UNCHANGED <<signer, signFn, seal, proposals, prep, snap, snapErr, last,
                   pending, fakeDiff, change, calc, cleared, batch, db,
                   recents, disk, res, vh, fin, mu, th>>

\* The stop channel stays open: what closing it does is in SpecSeal.
NextMine ==
    Authorize \/ Prepare \/ SealPrepared \/ Tick \/ DelayElapses \/ Publish
    \/ Receiver

SpecMine == InitMine /\ [][NextMine]_vars

-----------------------------------------------------------------------------
(* Properties *)

\* The errors verifyHeader returns before it reaches seal verification.
PreSealErrors ==
    {"ErrFutureBlock", "errInvalidCheckpointBeneficiary", "errInvalidVote",
     "errInvalidCheckpointVote", "errMissingVanity", "errMissingSignature",
     "errExtraSigners", "errInvalidCheckpointSigners", "errInvalidMixDigest",
     "errInvalidUncleHash", "errInvalidDifficulty", "invalid gasLimit",
     "fork hash mismatch", "errMismatchingCheckpointSigners"}

\* A header was verified against the resolved snapshot of its parent.
Verified == last.set /\ snapErr = "nil"

\* The verdict on the last header came from seal verification.
ReachedSeal == Verified /\ last.err \notin PreSealErrors

NumSigners == Cardinality(snap.Signers)

\* C1: a header of number >= 1 that verification accepts was sealed by a
\* member of Signers of its parent's snapshot, and seal verification rejects
\* a header whose recovered signer is not a member with errUnauthorizedSigner.
C1_AcceptedSealedBySigner ==
    Verified =>
        LET h == last
        IN /\ h.Number >= 1
           /\ last.err = "nil" => h.Seal \in snap.Signers
           /\ (ReachedSeal /\ h.Seal # ZeroAddress /\ h.Seal \notin snap.Signers)
                  => last.err = "errUnauthorizedSigner"

C1_Witness ==
    /\ Verified /\ last.err = "nil"
    /\ last.Number >= 2
    /\ snap.Signers # Addrs

\* C2: seal verification rejects with errRecentlySigned every header whose
\* signer is recorded in Recents of the parent snapshot inside the window,
\* at every block number >= 1.  The window is taken as the engine's own
\* n/2 + 1 (rounded down), the narrowest reading: the window ceil(n/2) + 1
\* contains it, so a header that escapes here escapes under either reading.
C2_RecentSignerRejected ==
    (ReachedSeal /\ last.Seal \in snap.Signers) =>
        LET h == last
            W == RecentLimit(NumSigners)
        IN (\E seen \in DOMAIN snap.Recents :
               /\ snap.Recents[seen] = h.Seal
               /\ seen + W > h.Number)
           => last.err = "errRecentlySigned"

\* The block the sealing account of the last header signed latest, as far as
\* Recents of the parent snapshot records it (0: not recorded).
LatestSigned ==
    LET seenAt == {b \in DOMAIN snap.Recents : snap.Recents[b] = last.Seal}
    IN IF seenAt = {} THEN 0 ELSE CHOOSE b \in seenAt : \A c \in seenAt : c <= b

\* The claim's window for n signers under its two readings: the engine's
\* n/2 + 1 and the specification's ceil(n/2) + 1.
Windows(n) == {(n \div 2) + 1, ((n + 1) \div 2) + 1}

\* C3: with the signer's latest block s and an unchanged signer set, seal
\* verification rejects for recency at every block s+1 .. s+W-1 and does not
\* at block s+W, for W one of the two readings of the window.
C3_EligibleAfterWindow ==
    (ReachedSeal /\ last.Seal \in snap.Signers
                 /\ LatestSigned > 0 /\ change.at <= LatestSigned) =>
        \E W \in Windows(NumSigners) :
            LET s == LatestSigned
                number == last.Number
            IN /\ (s + 1 <= number /\ number <= s + W - 1)
                      => last.err = "errRecentlySigned"
               /\ number = s + W => last.err # "errRecentlySigned"

\* The difficulty the turn of the sealing account asks for: diffInTurn for
\* the signer at index number mod n of the ascending signer list.
TurnDifficulty(s, h) ==
    IF h.Seal \in s.Signers
       /\ signers(s)[(h.Number % Cardinality(s.Signers)) + 1] = h.Seal
    THEN diffInTurn
    ELSE diffNoTurn

InTurnSigner(s, b) == signers(s)[(b % Cardinality(s.Signers)) + 1]

\* C5 on a state: with n >= 1 signers exactly one member is in turn at every
\* block number, the one at index b mod n of the ascending list; and the
\* difficulty CalcDifficulty returned is diffInTurn iff its signer is the one
\* in turn at snapshot.Number + 1, diffNoTurn otherwise.
C5_OneInTurn ==
    snap.Signers # {} =>
        /\ \A b \in 0..(MaxNumber + 1) :
              {a \in snap.Signers : inturn(snap, b, a)} = {InTurnSigner(snap, b)}
        /\ calc.set =>
              /\ ~calc.panic
              /\ calc.diff = IF calc.signer = InTurnSigner(snap, snap.Number + 1)
                              THEN diffInTurn ELSE diffNoTurn

Replayed == snap'.Number = snap.Number + 1

\* The signers with a pending vote (target, authorize) in snapshot s.
VotersFor(s, target, authorize) ==
    {s.Votes[i].Signer : i \in {j \in 1..Len(s.Votes) :
        s.Votes[j].Address = target /\ s.Votes[j].Authorize = authorize}}

\* C6: on the block whose vote brings the votes on its target above n/2
\* (n the signers before the block) the snapshot of that block already has
\* the target added or removed, and no tally and no vote on it is left; a
\* block whose vote leaves the count at n/2 or below leaves Signers alone.
C6_MajoritySameBlock ==
    [][Replayed =>
        LET h == pending
            target == h.Coinbase
            authorize == h.Nonce = nonceAuthVote
            isVote == /\ h.Number % Epoch # 0
                      /\ target # ZeroAddress
                      /\ authorize # (target \in snap.Signers)
            count == Cardinality(VotersFor(snap, target, authorize) \cup {h.Seal})
        IN IF isVote /\ count > NumSigners \div 2
           THEN /\ snap'.Signers = IF authorize THEN snap.Signers \cup {target}
                                    ELSE snap.Signers \ {target}
                /\ target \notin DOMAIN snap'.Tally
                /\ \A i \in 1..Len(snap'.Votes) : snap'.Votes[i].Address # target
           ELSE snap'.Signers = snap.Signers]_vars

C6_Witness ==
    /\ change.kind = "add" /\ change.at = snap.Number
    /\ snap.Number >= 2
    /\ NumSigners >= 3

TallyCount(s, a) == IF a \in DOMAIN s.Tally THEN s.Tally[a].Votes ELSE 0

\* C7: when a block removes signer R, the snapshot of that block holds no
\* vote cast by R, every other address's tally is lower by the votes R had
\* cast on it, and Recents lies inside the window of the smaller signer set.
C7_RemovalPurges ==
    [][(Replayed /\ snap'.Signers # snap.Signers
                 /\ pending.Coinbase \in snap.Signers) =>
        LET R == pending.Coinbase
            byR(a) == {i \in 1..Len(snap.Votes) :
                          snap.Votes[i].Signer = R /\ snap.Votes[i].Address = a}
        IN /\ snap'.Signers = snap.Signers \ {R}
           /\ \A i \in 1..Len(snap'.Votes) :
                 snap'.Votes[i].Signer # R /\ snap'.Votes[i].Address # R
           /\ R \notin DOMAIN snap'.Tally
           /\ \A a \in Addrs \ {R} :
                 TallyCount(snap', a) = TallyCount(snap, a) - Cardinality(byR(a))
           /\ \A b \in DOMAIN snap'.Recents :
                 b + RecentLimit(Cardinality(snap'.Signers)) > snap'.Number]_vars

C7_Witness ==
    /\ change.kind = "drop" /\ change.at = snap.Number
    /\ change.purged >= 1
    /\ snap.Number >= 2

\* C8: every reachable snapshot has at least one signer.
C8_SignersNonEmpty == Cardinality(snap.Signers) >= 1

\* C9: the tally of every address counts the pending votes on it: an address
\* with a tally has that many votes with the tally's direction (and no
\* other), an address without one has none.
C9_TallyCountsVotes ==
    \A a \in {ZeroAddress} \cup Addrs :
        LET on == {i \in 1..Len(snap.Votes) : snap.Votes[i].Address = a}
        IN IF a \in DOMAIN snap.Tally
           THEN /\ snap.Tally[a].Votes = Cardinality(on)
                /\ snap.Tally[a].Votes >= 1
                /\ \A i \in on : snap.Votes[i].Authorize = snap.Tally[a].Authorize
           ELSE on = {}

C9_Witness ==
    \E a \in DOMAIN snap.Tally :
        /\ snap.Tally[a].Votes = 2
        /\ \E b \in DOMAIN snap.Tally : b # a

\* C10: no address is the value of two Recents entries, and every entry's
\* block number lies in the window of n/2 + 1 blocks ending at the
\* snapshot's Number.
C10_RecentsInWindow ==
    /\ \A b, c \in DOMAIN snap.Recents :
          snap.Recents[b] = snap.Recents[c] => b = c
    /\ \A b \in DOMAIN snap.Recents :
          /\ b <= snap.Number
          /\ b + RecentLimit(NumSigners) > snap.Number

C10_Witness ==
    /\ snap.Number = MaxNumber
    /\ Cardinality(DOMAIN snap.Recents) = 3

\* The errors of the standalone checks of verifyHeader.
StructuralErrors == PreSealErrors \ {"errMismatchingCheckpointSigners"}

\* C12: replaying a header whose number is a multiple of the epoch length
\* leaves Votes and Tally empty and Signers as it was, whatever was pending.
C12_CheckpointResetsVotes ==
    [][(Replayed /\ pending.Number % Epoch = 0) =>
          /\ snap'.Votes = <<>>
          /\ snap'.Tally = <<>>
          /\ snap'.Signers = snap.Signers]_vars

C12_Witness ==
    /\ snap.Number = Epoch
    /\ cleared >= 2
    /\ snap.Votes = <<>>

\* C13: a checkpoint header that passed the standalone checks and whose
\* parent snapshot was resolved is rejected with
\* errMismatchingCheckpointSigners exactly when the bytes between vanity and
\* seal are not the snapshot's signers in ascending order, byte for byte.
C13_CheckpointSignersMatch ==
    (Verified /\ last.Number % Epoch = 0 /\ last.err \notin StructuralErrors) =>
        (last.err = "errMismatchingCheckpointSigners"
            <=> last.Extra # signersBytes(signers(snap)))

C13_Witness ==
    /\ Verified /\ last.Number = Epoch
    /\ last.err = "errMismatchingCheckpointSigners"
    /\ NumSigners >= 2
    /\ Len(last.Extra) = AddressLength * NumSigners
    /\ {last.Extra[i] : i \in DOMAIN last.Extra} = {0} \cup snap.Signers

-----------------------------------------------------------------------------
(* Snapshot resolution *)

\* The position (number, hash) is a base of the walk over that database and
\* those caches, with `headers` gathered so far.
IsBase(dbs, rec, dsk, number, hash, headers) ==
    \/ hash \in DOMAIN rec
    \/ number % checkpointInterval = 0 /\ hash \in DOMAIN dsk
    \/ /\ \/ number = 0
          \/ /\ number % Epoch = 0
             /\ \/ Len(headers) > FullImmutabilityThreshold
                \/ \A h \in dbs : ~(h.Number = number - 1 /\ h.Hash[1] = "main")
       /\ \E h \in dbs : h.Number = number /\ h.Hash[1] = "main"

\* The header of the position is not to be had: the tail of the remaining
\* parents is another header or, with no parents left, the database has none.
Unavailable(dbs, number, hash, parents) ==
    IF parents # <<>>
    THEN Last(parents).Hash # hash \/ Last(parents).Number # number
    ELSE \A h \in dbs : ~(h.Hash = hash /\ h.Number = number)

\* C19: a call of snapshot fails with ErrUnknownAncestor whenever its walk
\* comes to a position that is no base and whose header is not available;
\* while parents remain the walk takes its headers from the tail of the
\* parents only, and a tail that is not the header of the position fails the
\* call even when the database holds that header.
C19_UnknownAncestor ==
    [][res'.set =>
        LET r == res'
            used == Min(Len(r.gathered), Len(r.parents))
        IN /\ \A i \in 1..used :
                 r.gathered[i] = r.parents[Len(r.parents) + 1 - i]
           /\ r.stopParents = SubSeq(r.parents, 1, Len(r.parents) - used)
           /\ (/\ ~IsBase(db, recents, disk, r.stopNumber, r.stopHash,
                          r.gathered)
               /\ Unavailable(db, r.stopNumber, r.stopHash, r.stopParents))
              => r.err = "ErrUnknownAncestor"]_vars

\* A call failed on a tail of the parents that is not the header of the
\* position, one header gathered already, the database holding that header.
C19_Witness ==
    /\ res.set
    /\ res.err = "ErrUnknownAncestor"
    /\ res.stopParents # <<>>
    /\ \E h \in db : h.Hash = res.stopHash /\ h.Number = res.stopNumber

\* A call failed for want of a header in the database after headers were
\* gathered.
C19_WitnessMissing ==
    /\ res.set
    /\ res.err = "ErrUnknownAncestor"
    /\ res.stopParents = <<>>
    /\ Len(res.gathered) >= 2

\* C20: a call of snapshot takes its signers straight from the extra-data of
\* a header only at block 0, or at a multiple of the epoch length where the
\* canonical header of number-1 is missing or more than
\* FullImmutabilityThreshold headers are gathered; every other successful
\* call returns the replay of the gathered headers on a snapshot that was
\* cached or persisted before the call.
C20_TrustedCheckpointGate ==
    [][res'.set /\ res'.err = "nil" =>
        LET r == res'
            replay == applyHeaders(r.baseSnap, Reverse(r.gathered))
        IN /\ r.base \in {"cache", "disk", "checkpoint"}
           /\ r.base = "checkpoint" =>
                 /\ \/ r.baseNumber = 0
                    \/ /\ r.baseNumber % Epoch = 0
                       /\ \/ Len(r.gathered) > FullImmutabilityThreshold
                          \/ \A h \in db : ~(/\ h.Number = r.baseNumber - 1
                                              /\ h.Hash[1] = "main")
                 /\ \E h \in db :
                       /\ h.Number = r.baseNumber
                       /\ h.Hash = r.baseHash
                       /\ r.baseSnap.Signers = parseSigners(h.Extra)
           /\ r.base = "cache" =>
                 r.baseHash \in DOMAIN recents /\ r.baseSnap = recents[r.baseHash]
           /\ r.base = "disk" =>
                 r.baseHash \in DOMAIN disk /\ r.baseSnap = disk[r.baseHash]
           /\ replay.err = "nil"
           /\ r.snap = replay.snap]_vars

\* A call trusted the checkpoint at the epoch length with its parent in the
\* database, after gathering more than FullImmutabilityThreshold headers.
C20_Witness ==
    /\ res.set
    /\ res.err = "nil"
    /\ res.base = "checkpoint"
    /\ res.baseNumber = Epoch
    /\ Len(res.gathered) > FullImmutabilityThreshold
    /\ \E h \in db : h.Number = Epoch - 1 /\ h.Hash[1] = "main"

\* A call trusted the checkpoint at the epoch length with nothing gathered,
\* its parent missing from the database.
C20_WitnessNoParent ==
    /\ res.set
    /\ res.err = "nil"
    /\ res.base = "checkpoint"
    /\ res.baseNumber = Epoch
    /\ res.gathered = <<>>

\* A call at the epoch length went past the checkpoint to an older base.
C20_WitnessReplayed ==
    /\ res.set
    /\ res.err = "nil"
    /\ res.base # "checkpoint"
    /\ res.baseNumber < Epoch
    /\ res.snap.Number >= Epoch

-----------------------------------------------------------------------------
(* Batch verification *)

\* The header fails one of the structural checks.
FailsStructure(h) ==
    LET checkpoint == h.Number % Epoch = 0
    IN \/ h.Time = "future"
       \/ checkpoint /\ h.Coinbase # ZeroAddress
       \/ h.Nonce \notin {nonceAuthVote, nonceDropVote}
       \/ checkpoint /\ h.Nonce = nonceAuthVote
       \/ h.Layout # "full"
       \/ ~checkpoint /\ h.Extra # <<>>
       \/ checkpoint /\ Len(h.Extra) % AddressLength # 0
       \/ h.MixDigest # "zero"
       \/ h.UncleHash # "empty"
       \/ h.Number > 0 /\ h.Difficulty \notin {diffNoTurn, diffInTurn}
       \/ h.GasLimit = "over"

\* C16: a header that fails a structural check is rejected with a
\* structural error without a look for its parent header and without a call
\* of c.snapshot, and the snapshots in memory, the signature cache and the
\* persisted snapshots are as they were.
C16_StructuralFirst ==
    \A k \in DOMAIN vh.trace :
        LET e == vh.trace[k]
        IN FailsStructure(vh.headers[e.index + 1]) =>
              /\ e.err \in StructuralErrors
              /\ ~e.lookup
              /\ ~e.resolved
              /\ ~e.recovered
              /\ ~e.changed

\* A header failing a structural check was verified after the verification
\* of the header before it had filled the caches.
C16_Witness ==
    \E k \in DOMAIN vh.trace :
        /\ k > 1
        /\ FailsStructure(vh.headers[vh.trace[k].index + 1])
        /\ vh.trace[k].err \in StructuralErrors
        /\ vh.trace[k - 1].changed
        /\ recents # <<>>

\* C17: the results come in the order of the batch, the k-th being the
\* outcome of verifying the k-th header with the headers before it as
\* parents, every header verified once; never more results than headers;
\* and a row of the canonical chain is accepted header after header when
\* the database holds the chain from the genesis up to the parent of the
\* first header, whether or not it holds the row.
C17_ResultsInOrder ==
    /\ Len(vh.results) <= Len(vh.headers)
    /\ Len(vh.results) <= Len(vh.trace)
    /\ Len(vh.trace) <= Len(vh.results) + 1
    /\ \A k \in DOMAIN vh.trace :
          /\ vh.trace[k].index = k - 1
          /\ vh.trace[k].parents = SubSeq(vh.headers, 1, k - 1)
    /\ \A k \in DOMAIN vh.results : vh.results[k] = vh.trace[k].err
    /\ (/\ vh.headers # <<>>
        /\ \A k \in DOMAIN vh.headers : vh.headers[k] \in MainChain
        /\ MainHeader(0) \in db
        /\ \A n \in 0..(vh.headers[1].Number - 1) : MainHeader(n) \in db)
       => \A k \in DOMAIN vh.results : vh.results[k] = "nil"

\* A whole batch above block 0 was accepted, none of its headers in the
\* database.
C17_Witness ==
    /\ Len(vh.headers) = MaxBatch
    /\ Len(vh.results) = MaxBatch
    /\ vh.headers[1].Number > 0
    /\ \A k \in DOMAIN vh.headers : vh.headers[k] \notin db
    /\ \A k \in DOMAIN vh.results : vh.results[k] = "nil"

\* C18: once abort is signalled, no header after the one the goroutine was
\* at is verified, and no result for such a header is delivered.
C18_AbortStops ==
    vh.aborted =>
        /\ \A k \in DOMAIN vh.trace : vh.trace[k].index <= vh.abortAt
        /\ Len(vh.results) <= vh.abortAt + 1

-----------------------------------------------------------------------------
(* Finalize *)

\* C14: no operation changes the contents of a snapshot that is in the
\* memory cache: Signers, Recents, Votes, Tally and SignerActives of every
\* cached snapshot are after the operation what they were before it.
C14_CachedSnapshotsImmutable ==
    [][\A hash \in DOMAIN recents :
          hash \in DOMAIN recents' =>
             /\ recents'[hash].Signers = recents[hash].Signers
             /\ recents'[hash].Recents = recents[hash].Recents
             /\ recents'[hash].Votes = recents[hash].Votes
             /\ recents'[hash].Tally = recents[hash].Tally
             /\ recents'[hash].SignerActives = recents[hash].SignerActives]_vars

\* C15: two executions of Finalize on the same header over the same chain
\* credit the same account and pass the same addresses to CommitAccum,
\* whatever the order of the map and the current head of the node.
C15_FinalizeDeterministic ==
    \A i \in DOMAIN fin : \A j \in DOMAIN fin :
        fin[i].header = fin[j].header =>
           /\ fin[i].panic = fin[j].panic
           /\ fin[i].reward = fin[j].reward
           /\ fin[i].commit = fin[j].commit
           /\ fin[i].install = fin[j].install

\* Two executions on the same header, the current head its parent both
\* times, passed different signers to CommitAccum.
C15_MapOrderDiffers ==
    \E i \in DOMAIN fin : \E j \in DOMAIN fin :
        /\ fin[i].header = fin[j].header
        /\ fin[i].head = fin[j].head
        /\ fin[i].head[2] + 1 = fin[i].header[2]
        /\ fin[i].commit # fin[j].commit

\* Two executions on the same header with different current heads passed
\* different signers to CommitAccum, neither panicking.
C15_HeadDiffers ==
    \E i \in DOMAIN fin : \E j \in DOMAIN fin :
        /\ fin[i].header = fin[j].header
        /\ fin[i].head # fin[j].head
        /\ ~fin[i].panic /\ ~fin[j].panic
        /\ fin[i].commit # {} /\ fin[j].commit # {}
        /\ fin[i].commit \cap fin[j].commit = {}

-----------------------------------------------------------------------------
(* Votes on accepted headers *)

\* C29: a header verifyHeader accepts has one of the two vote nonces, and an
\* accepted header of a checkpoint block has the zero beneficiary and the
\* drop nonce: it carries no vote.
C29_NoVoteOnCheckpoint ==
    (last.set /\ last.err = "nil") =>
        /\ pending.Nonce \in {nonceAuthVote, nonceDropVote}
        /\ pending.Number % Epoch = 0 =>
              /\ pending.Coinbase = ZeroAddress
              /\ pending.Nonce = nonceDropVote

\* A checkpoint header was accepted, after a header with a vote was.
C29_Witness ==
    /\ last.set
    /\ last.err = "nil"
    /\ pending.Number = Epoch
    /\ snap.Votes # <<>>


(* Rewards, the transition and the activity scan of Finalize *)
\* The executions of Finalize that ran to their end on a block of the
\* canonical chain.
Completed == {i \in DOMAIN fin : ~fin[i].panic /\ fin[i].header[1] = "main"}

\* C23: without external reward authority Finalize credits exactly one
\* BlockReward, to the account Recents records as the signer of the parent
\* block; with external reward authority it credits nothing, on any block.
C23_OneRewardToPreviousSigner ==
    \A i \in Completed :
        IF fin[i].cfg.implAuth
        THEN fin[i].credits = <<>>
        ELSE /\ Len(fin[i].credits) = 1
             /\ fin[i].credits[1].amount = "BlockReward"
             /\ fin[i].recorded =>
                   fin[i].credits[1].to = MainHeader(fin[i].number - 1).Seal

\* C24: the contract code is installed on exactly the block whose number is
\* the transition block, and the credit that goes with it is the treasury
\* amount, paid to the contract or to the treasury account.
C24_InstallOnTransitionBlock ==
    \A i \in Completed :
        /\ fin[i].install <=> fin[i].number = fin[i].cfg.poa2pos
        /\ fin[i].install =>
              /\ fin[i].credits # <<>>
              /\ Last(fin[i].credits).amount = "TreasuryAmount"
              /\ Last(fin[i].credits).to \in {"ValidatorContract", "Treasury"}

\* C25: on a block past the transition whose number is a multiple of
\* ScanBlocks, finalized on top of the current head, CommitAccum gets every
\* signer that sealed none of the ScanBlocks blocks before it and is not
\* flagged in SignerActives, and no signer that sealed one of them; on
\* every other block CommitAccum is not called.
C25_EveryInactiveSignerReported ==
    \A i \in Completed :
        LET n == fin[i].number
            authors == {MainHeader(k).Seal : k \in (n - ScanBlocks)..(n - 1)}
        IN fin[i].head = <<"main", n - 1>> =>
              IF IsPoa2Pos(fin[i].cfg, n) /\ n % ScanBlocks = 0
              THEN fin[i].commit = (ChainSigners \ authors) \ fin[i].actives
              ELSE fin[i].commit = {}

\* C27: an error of CommitAccum reaches the caller of Finalize and of
\* FinalizeAndAssemble as an error.
C27_CommitAccumErrorSurfaced ==
    \A i \in DOMAIN fin :
        fin[i].commitErr # "nil" => fin[i].returned # "nil"

(* The engine lock *)
\* The callers between c.lock.RLock() and c.lock.RUnlock().
Reading == {t \in Callers : th[t].pc \in {"validators", "signer", "signFn", "RUnlock"}}

\* The callers between c.lock.Lock() and c.lock.Unlock().
Writing == {t \in Callers : th[t].pc \in {"c.signer", "c.signFn", "Unlock"}}

\* C26: a Prepare whose call of GetCurrentValidators failed, on a parent the
\* database holds, returns no error and has set the difficulty, the
\* extra-data and the timestamp of the header.
C26_BridgeFailureIgnored ==
    \A t \in Callers :
        (/\ th[t].op = "Prepare"
         /\ th[t].pc = "returned"
         /\ th[t].bridge = "fails"
         /\ th[t].parent) =>
            /\ th[t].err = "nil"
            /\ th[t].prepared = PreparedFields

\* C30: once every Prepare has returned, with or without an error, no read
\* lock is left held: an Authorize that waits in Lock while no other caller
\* is inside the engine gets the lock.
C30_PrepareReleasesLock ==
    \A t \in Callers :
        (/\ th[t].pc = "Lock"
         /\ \A u \in Callers \ {t} : th[u].pc \in {"idle", "returned"}) =>
            canLock(mu)

\* C28: the signer, the signer function and the proposals are read with the
\* lock held, and written with the lock held for writing, which excludes
\* every reader and every other writer; the signer and the signer function
\* Seal reads are those one call of Authorize installed together.
C28_SignerUnderLock ==
    /\ Reading # {} => mu.writer = 0 /\ mu.readers >= Cardinality(Reading)
    /\ Writing # {} => Writing = {mu.writer} /\ Reading = {}
    /\ \A t \in Callers :
          (th[t].op = "Seal" /\ th[t].pc \in {"RUnlock", "returned"}) =>
              th[t].signFn = th[t].signer

\* Seal has read the pair of one Authorize while an Authorize of another
\* account waits for the lock.
C28_Witness ==
    \E t \in Callers, u \in Callers :
        /\ th[t].op = "Seal"
        /\ th[t].pc = "RUnlock"
        /\ th[t].signer # ZeroAddress
        /\ th[u].op = "Authorize"
        /\ th[u].pc = "Lock"
        /\ th[u].arg # th[t].signer

(* Sealing *)
\* The local signer is among the recent signers of the parent snapshot, at
\* a block inside the window of the block to seal.
RecentlySigned ==
    \E seen \in DOMAIN seal.snap.Recents :
        /\ seal.snap.Recents[seen] = seal.signer
        /\ seen > seal.number - RecentLimit(Cardinality(seal.snap.Signers))

\* C21: Seal of the genesis block, of a block with no transactions on a
\* chain with period 0, by a local signer that is not a signer of the parent
\* snapshot, or by one that signed inside the window, returns an error,
\* starts no goroutine and sends nothing on the results channel.
C21_SealRefuses ==
    (/\ seal.called
     /\ \/ seal.number = 0
        \/ seal.period = 0 /\ seal.txs = 0
        \/ seal.snapErr = "nil" /\ seal.signer \notin seal.snap.Signers
        \/ seal.snapErr = "nil" /\ RecentlySigned) =>
        /\ seal.err # "nil"
        /\ seal.task = "none"
        /\ seal.sent = 0
        /\ seal.dropped = 0

\* Seal was refused for a signer that signed inside the window, on a chain
\* with a period, with a reader waiting on the results channel.
C21_Witness ==
    /\ seal.called
    /\ seal.number > 0
    /\ seal.period > 0
    /\ seal.signer \in seal.snap.Signers
    /\ RecentlySigned
    /\ seal.err = "signed recently, must wait for others"
    /\ seal.ready

\* What the goroutine of Seal may have done.
C22_AtMostOnce ==
    /\ seal.sent + seal.dropped <= 1
    /\ seal.task \in {"none", "waiting", "stopped"} =>
          seal.sent = 0 /\ seal.dropped = 0
    /\ seal.stopFirst => seal.task # "publishing" /\ seal.sent = 0
    /\ seal.task = "done" => seal.sent + seal.dropped = 1

\* C22: after Seal returned nil at most one block is sent on the results
\* channel; when the stop channel is closed before the delay has elapsed
\* nothing is sent and nothing else changes; when the delay has elapsed the
\* block is sent if a reader is ready and dropped if not; and the goroutine
\* always returns.
C22_SealTask ==
    /\ []C22_AtMostOnce
    /\ [][(seal.task = "waiting" /\ seal'.task = "stopped") =>
            /\ seal' = [seal EXCEPT !.task = "stopped"]
            /\ UNCHANGED <<signer, signFn, recents, disk, sealFrame>>]_vars
    /\ [][(seal.task = "publishing" /\ seal'.task = "done") =>
            IF seal.ready THEN seal'.sent = 1 /\ seal'.dropped = 0
            ELSE seal'.sent = 0 /\ seal'.dropped = 1]_vars
    /\ (seal.task \in {"waiting", "publishing"}) ~>
            (seal.task \in {"stopped", "done"})

\* The goroutine has returned on the stop channel, with a reader ready.
C22_Witness ==
    /\ seal.err = "nil"
    /\ seal.task = "stopped"
    /\ seal.stopFirst
    /\ seal.ready

\* The goroutine has dropped the block: no reader was ready.
C22_WitnessDropped ==
    /\ seal.task = "done"
    /\ seal.dropped = 1

(* Snapshot resolution: its effects *)
\* C32: a call of snapshot that returns an error leaves the snapshots in
\* memory and the snapshots in the database as they were.
C32_FailedCallChangesNothing ==
    [][(res'.set /\ res'.err # "nil") =>
          (recents' = recents /\ disk' = disk)]_vars

\* C33: the snapshot a call of snapshot returns is that of the block asked
\* for: its number is the number and its hash the hash of the call.
C33_SnapshotOfRequestedBlock ==
    (res.set /\ res.err = "nil") =>
        /\ res.snap.Number = res.number
        /\ res.snapHash = res.hash

\* C34: when the walk of a call has found a base, the headers it gathered
\* are those of the numbers base.Number+1 up to the number asked for, one
\* each; the call ends as their application in ascending order on the base
\* ends, and on success the result is in the memory cache under the hash of
\* the last header applied.
C34_ReplayAscending ==
    [][(res'.set /\ res'.base # "none") =>
        LET r == res'
            k == Len(r.gathered)
            asc == [i \in 1..k |-> r.gathered[k + 1 - i]]
            replay == applyHeaders(r.baseSnap, asc)
        IN /\ \A i \in 1..k : asc[i].Number = r.baseNumber + i
           /\ r.baseNumber + k = r.number
           /\ r.err = replay.err
           /\ r.err = "nil" =>
                 /\ r.snap = replay.snap
                 /\ r.snapHash \in DOMAIN recents'
                 /\ recents'[r.snapHash] = r.snap
                 /\ k > 0 => r.snapHash = asc[k].Hash /\ r.snapHash = r.hash]_vars

\* A call replayed three headers on a snapshot from the memory cache.
C34_Witness ==
    /\ res.set
    /\ res.err = "nil"
    /\ res.base = "cache"
    /\ Len(res.gathered) >= 3
    /\ res.snapHash \in DOMAIN recents

C36_WorkerTerminates ==
    /\ [](vh.phase = "select" => Len(vh.results) < Len(vh.headers))
    /\ (vh.phase \in {"verify", "select"}) ~> (vh.phase = "done")

\* The goroutine has returned after sending a result for each of three
\* headers, none of them read, the abort channel open.
C36_Witness ==
    /\ vh.phase = "done"
    /\ ~vh.aborted
    /\ Len(vh.headers) = MaxBatch
    /\ Len(vh.results) = MaxBatch

\* The two refusals Seal and verifySeal have in common.
SealRefusals == {"errUnauthorizedSigner", "signed recently, must wait for others"}
VerifyRefusals == {"errUnauthorizedSigner", "errRecentlySigned"}

\* A header of the given number that bears the signature of addr.
SignedBy(number, addr) ==
    [NullHeader EXCEPT !.Number = number, !.Seal = addr]

\* C38: on the same parent snapshot Seal is at least as strict as verifySeal
\* about authorization and recency: when a call of Seal got its snapshot and
\* did not refuse with unauthorized signer or signed recently, verifySeal
\* returns neither errUnauthorizedSigner nor errRecentlySigned for the header
\* of that number signed by the local signer; and on that snapshot the same
\* holds of Seal's checks for every number >= 1 and every address.
C38_SealAtLeastAsStrict ==
    (seal.called /\ seal.snapErr = "nil") =>
        /\ seal.err \notin SealRefusals =>
               verifySeal(seal.snap, SignedBy(seal.number, seal.signer), TRUE)
                   \notin VerifyRefusals
        /\ \A number \in 1..(MaxNumber + 1), addr \in Addrs \cup {Outsider} :
               sealPermitted(seal.snap, number, addr) = "nil" =>
                   verifySeal(seal.snap, SignedBy(number, addr), TRUE)
                       \notin VerifyRefusals

\* Seal accepted a signer that is among the recent signers of the snapshot
\* and is shifted out by the block, and on the same snapshot Seal refuses a
\* recent signer at a low block number that verifySeal lets through.
C38_Witness ==
    /\ seal.called /\ seal.snapErr = "nil" /\ seal.err = "nil"
    /\ \E seen \in DOMAIN seal.snap.Recents :
          seal.snap.Recents[seen] = seal.signer
    /\ \E number \in 1..(MaxNumber + 1), addr \in Addrs :
          /\ sealPermitted(seal.snap, number, addr) \in SealRefusals
          /\ verifySeal(seal.snap, SignedBy(number, addr), TRUE) = "nil"

\* C39: Finalize always runs to completion and sets the state root: no
\* execution ends in a panic, whether the snapshot of the parent block
\* resolves or not, and whether or not the window of the activity scan
\* holds a block the database misses.
C39_FinalizeCompletes ==
    \A i \in DOMAIN fin : ~fin[i].panic

\* The header a call of Seal signed, as its verifier sees it.
SealedHeader ==
    [NullHeader EXCEPT !.Number = seal.number, !.Seal = seal.signer,
                       !.Difficulty = seal.difficulty]

\* C31: every block Seal delivers on the results channel carries the
\* difficulty of the turn of the address that signed it: verifySeal's
\* difficulty check on the same parent snapshot passes, also when Authorize
\* changed the local signer after Prepare set the difficulty.
C31_DeliveredDifficultyMatchesSigner ==
    seal.sent > 0 =>
        verifySeal(seal.snap, SealedHeader, FALSE) # "errWrongDifficulty"

\* C37: the goroutine of Seal leaves its wait, and so sends the block, no
\* earlier than the timestamp of the header; the delay it waits is the time
\* left to the timestamp when Seal read the clock, plus a wiggle in
\* [0, (n/2+1) * wiggleTime) for a header with the out-of-turn difficulty
\* and nothing for a header with the in-turn difficulty.
C37_NotBeforeTimestamp ==
    /\ seal.task \in {"publishing", "done"} => clock >= seal.time
    /\ seal.sent > 0 => clock - seal.at >= seal.time - seal.at
    /\ (seal.called /\ seal.err = "nil") =>
          LET left == seal.time - seal.at
              wiggle == RecentLimit(Cardinality(seal.snap.Signers)) * wiggleTime
          IN IF seal.difficulty = diffNoTurn
             THEN seal.delay - left \in 0..(wiggle - 1)
             ELSE seal.difficulty = diffInTurn /\ seal.delay = left

\* A block out of turn was sent after a wait that was positive and longer
\* by a wiggle.
C37_Witness ==
    /\ seal.sent = 1
    /\ seal.difficulty = diffNoTurn
    /\ seal.time > seal.at
    /\ seal.delay > seal.time - seal.at

\* A block in turn was sent after a positive wait.
C37_WitnessInTurn ==
    /\ seal.sent = 1
    /\ seal.difficulty = diffInTurn
    /\ seal.time > seal.at

C40_WitnessCheckpoint ==
    /\ prep.set /\ prep.err = "nil"
    /\ prep.header.Number % Epoch = 0
    /\ proposals # {}
    /\ Len(prep.header.Extra) = NumAddrs * AddressLength
====
